---- MODULE Spec2Model ----
(***************************************************************************)
(* Model of the recovery update installer (install/install.cpp,           *)
(* install/wipe_data.cpp, recovery_utils/roots.cpp).                      *)
(*                                                                         *)
(* One InstallPackage call is a sequence of steps of the single foreground *)
(* thread; pc is the position of that thread.  Process-wide statics        *)
(* (ab_package_installed, logical_partitions_auto_mapped) survive a call   *)
(* and are lost only when the process is restarted by a reboot.            *)
(***************************************************************************)
EXTENDS Integers, Sequences, FiniteSets, TLC

VARIABLES
  device,                          \* system properties and fstab of the device
  ab_package_installed,            \* static bool in TryUpdateBinary
  logical_partitions_auto_mapped,  \* static bool in roots.cpp
  dm_mapped,                       \* fs_mgr / device-mapper view of the mapping
  pc,                              \* position of the foreground thread
  package,                         \* Package* argument of InstallPackage
  should_wipe_cache,               \* argument of InstallPackage, updated by it
  caller_wipe_cache,               \* should_wipe_cache as the caller passed it
  retry_count,                     \* argument of InstallPackage
  text_visible,                    \* ui->IsTextVisible()
  updater_wipe_cache,              \* *wipe_cache of TryUpdateBinary
  retry_update,                    \* local of TryUpdateBinary
  log_buffer,                      \* std::vector<std::string> log_buffer
  from_child,                      \* bytes not yet read from the pipe
  child_output,                    \* the lines the child wrote, as written
  child_status,                    \* waitpid status of the child
  tub_result,                      \* value returned by TryUpdateBinary
  tub_exit,                        \* which return statement produced it
  result,                          \* InstallResult result of InstallPackage
  install_log,                     \* content of the temporary install file
  trace,                           \* side effects of the current call, in order
  prev,                            \* summary of the previous call of this process
  volume,                          \* one VolumeBase object, its watcher and history
  vlast,                           \* the last call made on it and the state before
  ncalls,                          \* number of calls made on it
  mDisks,                          \* std::list<Disk*> mDisks of the VolumeManager
  mDiskSources,                    \* std::list<DiskSource*> mDiskSources
  mInternalEmulated,               \* VolumeBase* mInternalEmulated
  mWatcher,                        \* VolumeWatcher* mWatcher
  mlast,                           \* the last manager operation and what it emitted
  mLock,                           \* holder of std::mutex mLock
  thread,                          \* position of the main and the listener thread
  listening,                       \* the NetlinkHandler thread is running
  unmount_call,                    \* a call of ForceUnmount and what it has done
  perdev_minors,                   \* /sys/module/mmc_block/parameters/perdev_minors
  temperature_logger,              \* TryUpdateBinary's sampling thread and its stop signal
  fuse_call,                       \* a call of InstallWithFuseFromPath and its child
  recovery_ui,                     \* RecoveryUI's event queue, its mutex and its flag
  apply_call                       \* a call of ApplyFromStorage

install_vars == <<device, ab_package_installed, logical_partitions_auto_mapped,
                  dm_mapped, pc, package, should_wipe_cache, caller_wipe_cache,
                  retry_count, text_visible, updater_wipe_cache, retry_update,
                  log_buffer, from_child, child_output, child_status, tub_result,
                  tub_exit, result, install_log, trace, prev>>

volume_vars == <<volume, vlast, ncalls>>

manager_vars == <<mDisks, mDiskSources, mInternalEmulated, mWatcher, mlast>>

lock_vars == <<mLock, thread, listening>>

util_vars == <<unmount_call, perdev_minors>>

app_vars == <<temperature_logger, fuse_call, recovery_ui, apply_call>>

volmgr_vars == <<volume_vars, manager_vars, lock_vars, util_vars, app_vars>>

vars == <<install_vars, volmgr_vars>>

\* the parts of the program a specification does not exercise stay as constructed
VolumeIdle == volume = "none" /\ vlast = "none" /\ ncalls = 0

\* a null pointer; a pointer to an object is <<object>>
nullptr == <<>>

ManagerIdle ==
  /\ mDisks = <<>>
  /\ mDiskSources = <<>>
  /\ mInternalEmulated = nullptr
  /\ mWatcher = nullptr
  /\ mlast = [op |-> "none", arg |-> <<>>, ev |-> <<>>, graves |-> <<>>, res |-> "void"]

LockIdle == mLock = "free" /\ thread = "none" /\ listening = FALSE

UtilIdle == unmount_call = "none" /\ perdev_minors = "8"

AppIdle ==
  /\ temperature_logger = "none"
  /\ fuse_call = "none"
  /\ recovery_ui = "none"
  /\ apply_call = "none"

(***************************************************************************)
(* Bounds of the model.                                                    *)
(***************************************************************************)
\* longest child output, in lines, of the protocol specification
MaxLines == 3

(***************************************************************************)
(* Strings.  A string is a sequence of symbols; a symbol is a run of n     *)
(* characters with text t.  " " and "\n" are one character each; a symbol  *)
(* with text "?" is a run of n characters that are neither.  Words never   *)
(* contain a space, so a string equals a keyword exactly when it is the    *)
(* one-symbol sequence of that keyword.                                    *)
(***************************************************************************)
Sym(t, n) == [t |-> t, n |-> n]

SP == Sym(" ", 1)

NL == Sym("\n", 1)

WordLen(t) ==
  CASE t = "progress"     -> 8
    [] t = "set_progress" -> 12
    [] t = "ui_print"     -> 8
    [] t = "wipe_cache"   -> 10
    [] t = "clear_display" -> 13
    [] t = "enable_reboot" -> 13
    [] t = "retry_update" -> 12
    [] t = "log"          -> 3
    [] t = "0.5"          -> 3
    [] t = "10"           -> 2
    [] OTHER              -> 5

Word(t) == Sym(t, WordLen(t))

\* a run of n characters that are neither a space nor a newline
Filler(n) == Sym("?", n)

\* a one-word string built by the installer itself
Text(t) == <<Word(t)>>

IsSpace(s) == s.t \in {" ", "\n"}

Min(S) == CHOOSE x \in S : \A y \in S : x <= y

Max(S) == CHOOSE x \in S : \A y \in S : x >= y

RECURSIVE Concat(_)
Concat(ss) == IF ss = <<>> THEN <<>> ELSE Head(ss) \o Concat(Tail(ss))

\* char buffer[1024]
kBufferSize == 1024

\* fgets(buffer, room + 1, from_child): the characters up to and including the
\* first newline, at most room of them; a symbol that does not fit is cut.
RECURSIVE FgetsRoom(_, _)
FgetsRoom(s, room) ==
  IF s = <<>> \/ room = 0 THEN [chunk |-> <<>>, rest |-> s]
  ELSE LET h == Head(s) IN
       IF h.n > room
       THEN [chunk |-> <<Filler(room)>>, rest |-> <<Filler(h.n - room)>> \o Tail(s)]
       ELSE IF h = NL
       THEN [chunk |-> <<h>>, rest |-> Tail(s)]
       ELSE LET r == FgetsRoom(Tail(s), room - h.n)
            IN  [chunk |-> <<h>> \o r.chunk, rest |-> r.rest]

Fgets(s) == FgetsRoom(s, kBufferSize - 1)

\* line.find_first_of(" \n"); 0 stands for npos, positions count from 1
FindFirstSpace(line) ==
  LET S == {i \in 1..Len(line) : IsSpace(line[i])}
  IN  IF S = {} THEN 0 ELSE Min(S)

\* android::base::Trim
Trim(s) ==
  LET S == {i \in 1..Len(s) : ~IsSpace(s[i])}
  IN  IF S = {} THEN <<>> ELSE SubSeq(s, Min(S), Max(S))

\* android::base::Split(s, " ")
RECURSIVE Split(_)
Split(s) ==
  LET S == {i \in 1..Len(s) : s[i] = SP}
  IN  IF S = {} THEN <<s>>
      ELSE <<SubSeq(s, 1, Min(S) - 1)>> \o Split(SubSeq(s, Min(S) + 1, Len(s)))

\* android::base::ParseDouble succeeds
ParseDouble(tok) == tok \in {Text("0.5"), Text("10")}

\* android::base::ParseInt succeeds
ParseIntToken(tok) == tok = Text("10")

LineCommand(line) ==
  LET space == FindFirstSpace(line)
  IN  IF space = 0 THEN line ELSE SubSeq(line, 1, space - 1)

LineArgs(line) ==
  LET space == FindFirstSpace(line)
  IN  IF space = 0 THEN <<>> ELSE Trim(SubSeq(line, space, Len(line)))

\* the branches of the read loop that end in LOG(ERROR)
LineIsError(line) ==
  LET command == LineCommand(line)
      args    == LineArgs(line)
      tokens  == Split(args)
  IN  /\ command # <<>>
      /\ \/ /\ command = Text("progress")
            /\ ~(Len(tokens) = 2 /\ ParseDouble(tokens[1]) /\ ParseIntToken(tokens[2]))
         \/ /\ command = Text("set_progress")
            /\ ~(Len(tokens) = 1 /\ ParseDouble(tokens[1]))
         \/ /\ command = Text("log")
            /\ args = <<>>
         \/ command \notin {Text("progress"), Text("set_progress"), Text("ui_print"),
                            Text("wipe_cache"), Text("clear_display"),
                            Text("enable_reboot"), Text("retry_update"), Text("log")}

\* the UI call one line of the protocol makes, "" when it makes none
LineUiCall(line) ==
  LET command == LineCommand(line)
  IN  IF LineIsError(line) \/ command = <<>> THEN ""
      ELSE CASE command = Text("progress")      -> "ShowProgress"
             [] command = Text("set_progress")  -> "SetProgress"
             [] command = Text("ui_print")      -> "PrintOnScreenOnly"
             [] command = Text("clear_display") -> "SetBackground"
             [] command = Text("enable_reboot") -> "SetEnableReboot"
             [] OTHER                           -> ""

\* one iteration of the read loop on the state st = [wipe, retry, log]
ProcessLine(line, st) ==
  LET command == LineCommand(line)
      args    == LineArgs(line)
  IN  IF command = <<>> \/ LineIsError(line) THEN st
      ELSE IF command = Text("wipe_cache") THEN [st EXCEPT !.wipe = TRUE]
      ELSE IF command = Text("retry_update") THEN [st EXCEPT !.retry = TRUE]
      ELSE IF command = Text("log") THEN [st EXCEPT !.log = Append(@, args)]
      ELSE st

\* the whole read loop: fgets until end of file
RECURSIVE ReadLoop(_, _)
ReadLoop(stream, st) ==
  IF stream = <<>> THEN st
  ELSE LET f == Fgets(stream)
       IN  ReadLoop(f.rest, ProcessLine(f.chunk, st))


(***************************************************************************)
(* Package metadata and the device it is checked against.                 *)
(*                                                                         *)
(* A metadata map is a record of the values get_value() returns, "" or     *)
(* <<>> for a key that is absent.  List-valued keys hold the list of       *)
(* their tokens.                                                           *)
(***************************************************************************)
EmptyMetadata ==
  [ota_type |-> "", pre_device |-> <<>>, serialno |-> <<>>,
   pre_build_incremental |-> "", pre_build |-> <<>>, post_timestamp |-> "",
   ota_downgrade |-> "", post_build |-> <<>>, post_build_incremental |-> ""]

\* ReadMetadataFromPackage: the map stays empty when the entry is missing
Metadata(p) == IF p.has_metadata THEN p.metadata ELSE EmptyMetadata

\* android::base::ParseInt on the decimal strings of the model
IsIntString(s) == s \in {"0", "1", "2"}

IntOf(s) == CASE s = "0" -> 0 [] s = "1" -> 1 [] s = "2" -> 2 [] OTHER -> 0

\* membership of a token in a delimited list
isInStringList(target_token, str_list) ==
  \E i \in 1..Len(str_list) : str_list[i] = target_token

\* UndeclaredDowngrade with the timestamp comparison reversed
UndeclaredDowngrade_Reversed(md, dev) ==
  LET build_timestamp == IntOf(dev.build_date_utc)
      pkg_post_timestamp == IF IsIntString(md.post_timestamp)
                            THEN IntOf(md.post_timestamp) ELSE 0
  IN  /\ \/ md.post_timestamp = ""
         \/ ~IsIntString(md.post_timestamp)
         \/ pkg_post_timestamp > build_timestamp
      /\ \/ md.ota_downgrade # "yes"
         \/ md.pre_build = <<>>

\* the undeclared_downgrade flag of CheckAbSpecificMetadata
UndeclaredDowngrade(md, dev) ==
  LET build_timestamp == IntOf(dev.build_date_utc)
      pkg_post_timestamp == IF IsIntString(md.post_timestamp)
                            THEN IntOf(md.post_timestamp) ELSE 0
  IN  /\ \/ md.post_timestamp = ""
         \/ ~IsIntString(md.post_timestamp)
         \/ pkg_post_timestamp < build_timestamp
      /\ \/ md.ota_downgrade # "yes"
         \/ md.pre_build = <<>>

\* answer is what ask_to_continue_downgrade would return
CheckAbSpecificMetadata(md, dev, tv, answer) ==
  IF md.pre_build_incremental # "" /\ md.pre_build_incremental # dev.incremental
  THEN FALSE
  ELSE IF md.pre_build # <<>> /\ ~isInStringList(dev.fingerprint, md.pre_build)
  THEN FALSE
  ELSE IF /\ md.post_build # <<>>
          /\ dev.build_type = "user"
          /\ dev.build_tags # md.post_build[Len(md.post_build)]
  THEN FALSE
  ELSE IF UndeclaredDowngrade(md, dev) /\ ~(tv /\ answer)
  THEN FALSE
  ELSE TRUE

CheckPackageMetadata(md, ota_type, dev, tv, answer) ==
  IF ota_type # "AB" /\ ota_type # "BRICK" THEN TRUE
  ELSE IF md.ota_type # ota_type THEN FALSE
  ELSE IF md.pre_device = <<>> \/ ~isInStringList(dev.product_device, md.pre_device)
  THEN FALSE
  ELSE IF md.serialno # <<>> /\ ~isInStringList(dev.serialno, md.serialno)
  THEN FALSE
  ELSE IF /\ md.serialno = <<>>
          /\ ota_type = "BRICK"
          /\ dev.build_tags \in {"", "release-keys"}
  THEN FALSE
  ELSE IF ota_type = "AB" THEN CheckAbSpecificMetadata(md, dev, tv, answer)
  ELSE TRUE

\* install/spl_check: the package's patch level is older than the installed one
ViolatesSPLDowngrade(p) == p.spl_older

package_is_ab(p) == p.has_metadata /\ Metadata(p).ota_type = "AB"

package_is_brick(p) == Metadata(p).ota_type = "BRICK"

\* ab_device_supports_nonab is the constant true
device_only_supports_ab(dev) == dev.ab_update /\ ~TRUE

\* logical_partitions_mapped() of roots.cpp
logical_partitions_mapped == dm_mapped \/ logical_partitions_auto_mapped

(***************************************************************************)
(* Inputs of the model.                                                    *)
(***************************************************************************)
Devices ==
  {d \in [product_device : {"dev"}, serialno : {"sn"}, incremental : {"inc1"},
          fingerprint : {"fp1"}, build_date_utc : {"1"}, build_type : {"user"},
          build_tags : {"release-keys"}, ab_update : {TRUE},
          virtual_ab : BOOLEAN, dynamic_partitions : BOOLEAN,
          has_cache : BOOLEAN, cache_logical : {FALSE}] :
     d.virtual_ab => d.dynamic_partitions}

AbMetadata ==
  [ota_type : {"AB"}, pre_device : {<<"dev">>}, serialno : {<<>>},
   pre_build_incremental : {""}, pre_build : {<<>>, <<"fp1">>},
   post_timestamp : {"0", "2"}, ota_downgrade : {"", "yes"},
   post_build : {<<>>}, post_build_incremental : {"inc2"}]
  \cup
  [ota_type : {"AB"}, pre_device : {<<"other">>}, serialno : {<<>>},
   pre_build_incremental : {""}, pre_build : {<<>>},
   post_timestamp : {"2"}, ota_downgrade : {""},
   post_build : {<<>>}, post_build_incremental : {""}]

OtherMetadata ==
  [ota_type : {"BRICK", "BLOCK"}, pre_device : {<<"dev">>}, serialno : {<<>>},
   pre_build_incremental : {""}, pre_build : {<<>>},
   post_timestamp : {"0"}, ota_downgrade : {""},
   post_build : {<<>>}, post_build_incremental : {""}]

\* packages whose security patch level is older than the installed one
OldSplMetadata ==
  {m \in AbMetadata \cup OtherMetadata :
     m.pre_device = <<"dev">> /\ m.pre_build = <<>> /\ m.ota_downgrade = ""}

NullPackage ==
  [null |-> TRUE, has_metadata |-> FALSE, metadata |-> EmptyMetadata,
   spl_older |-> FALSE]

Packages ==
  {NullPackage}
  \cup [null : {FALSE}, has_metadata : {TRUE}, metadata : AbMetadata \cup OtherMetadata,
        spl_older : {FALSE}]
  \cup [null : {FALSE}, has_metadata : {TRUE}, metadata : OldSplMetadata,
        spl_older : {TRUE}]
  \cup [null : {FALSE}, has_metadata : {FALSE}, metadata : {EmptyMetadata},
        spl_older : {FALSE}]

PackageIds == {"update.zip"}

RetryCounts == {0, 1}

\* what an updater child may write, line by line
LineWipeCache == <<Word("wipe_cache"), NL>>

LineRetryUpdate == <<Word("retry_update"), NL>>

LineLog == <<Word("log"), SP, Word("cause"), NL>>

LineLogEmpty == <<Word("log"), NL>>

LineUnknown == <<Word("bogus"), SP, Word("wipe_cache"), NL>>

LineUiPrint == <<Word("ui_print"), SP, Word("hello"), NL>>

LineProgress == <<Word("progress"), SP, Word("0.5"), SP, Word("10"), NL>>

LineProgressBad == <<Word("progress"), SP, Word("0.5"), NL>>

LineEmpty == <<NL>>

\* an unknown command of kBufferSize - 1 characters directly followed by a keyword
LineLongUnknown == <<Filler(kBufferSize - 1), Word("wipe_cache"), NL>>

ChildOutputs ==
  {<<>>, <<LineWipeCache>>, <<LineRetryUpdate>>, <<LineUiPrint, LineLog>>,
   <<LineUnknown, LineWipeCache, LineRetryUpdate>>, <<LineLongUnknown>>}

ChildStatuses == {"exit0", "exit1", "signaled"}

ProtocolLines ==
  {LineWipeCache, LineRetryUpdate, LineLog, LineLogEmpty, LineUnknown, LineUiPrint,
   LineProgress, LineProgressBad, LineEmpty, LineLongUnknown}

RECURSIVE SeqsUpTo(_, _)
SeqsUpTo(S, n) ==
  IF n = 0 THEN {<<>>}
  ELSE LET shorter == SeqsUpTo(S, n - 1)
       IN  shorter \cup {Append(q, x) : q \in shorter, x \in S}


(***************************************************************************)
(* The decisions of InstallPackage, VerifyAndInstallPackage and            *)
(* TryUpdateBinary, one operator per decision.                             *)
(***************************************************************************)
\* StartOutcome that goes on after a failed setup_install_mounts
StartOutcome_IgnoreMounts(is_null, mounts_ok) ==
  IF is_null THEN "corrupt" ELSE "verify"

\* InstallPackage before VerifyAndInstallPackage
StartOutcome(is_null, mounts_ok) ==
  IF is_null THEN "corrupt"
  ELSE IF ~mounts_ok THEN "error"
  ELSE "verify"

\* VerifyOutcome that never asks the user
VerifyOutcome_IgnoreAnswer(verify_ok, tv, answer) ==
  IF ~verify_ok /\ ~tv THEN "corrupt" ELSE "install"

\* VerifyAndInstallPackage after verify_package; answer is what
\* ask_to_continue_unverified would return
VerifyOutcome(verify_ok, tv, answer) ==
  IF ~verify_ok /\ (~tv \/ ~answer) THEN "corrupt" ELSE "install"

\* ChecksOutcome without the one-shot guard
ChecksOutcome_NoGuard(p, dev, installed, tv, answer) ==
  IF package_is_brick(p) THEN "brick"
  ELSE IF ViolatesSPLDowngrade(p) THEN "spl"
  ELSE IF /\ package_is_ab(p) \/ device_only_supports_ab(dev)
          /\ ~CheckPackageMetadata(Metadata(p), "AB", dev, tv, answer)
  THEN "metadata"
  ELSE "continue"

\* ChecksOutcome with the patch-level check after the metadata check, where
\* a package that passes the metadata check is let through
ChecksOutcome_SplLate(p, dev, installed, tv, answer) ==
  IF package_is_brick(p) THEN "brick"
  ELSE IF installed THEN "one_shot"
  ELSE IF /\ package_is_ab(p) \/ device_only_supports_ab(dev)
          /\ ~CheckPackageMetadata(Metadata(p), "AB", dev, tv, answer)
  THEN IF ViolatesSPLDowngrade(p) THEN "spl" ELSE "metadata"
  ELSE "continue"

\* TryUpdateBinary up to the metadata check
ChecksOutcome(p, dev, installed, tv, answer) ==
  IF package_is_brick(p) THEN "brick"
  ELSE IF ViolatesSPLDowngrade(p) THEN "spl"
  ELSE IF installed THEN "one_shot"
  ELSE IF /\ package_is_ab(p) \/ device_only_supports_ab(dev)
          /\ ~CheckPackageMetadata(Metadata(p), "AB", dev, tv, answer)
  THEN "metadata"
  ELSE "continue"

\* PartitionsOutcome that lets an A/B package through with mapped partitions
PartitionsOutcome_NoAbort(is_ab, virtual_ab, mapped) ==
  IF ~is_ab /\ ~mapped THEN "map" ELSE "continue"

\* TryUpdateBinary, the partition-mapping precondition
PartitionsOutcome(is_ab, virtual_ab, mapped) ==
  IF ~is_ab /\ ~mapped THEN "map"
  ELSE IF is_ab /\ virtual_ab /\ mapped THEN "abort"
  ELSE "continue"

\* ExitResult that looks at the exit status before the retry flag
ExitResult_StatusFirst(retry, status) ==
  IF status = "exit0" THEN "INSTALL_SUCCESS"
  ELSE IF retry THEN "INSTALL_RETRY"
  ELSE "INSTALL_ERROR"

\* TryUpdateBinary after waitpid
ExitResult(retry, status) ==
  IF retry THEN "INSTALL_RETRY"
  ELSE IF status = "exit0" THEN "INSTALL_SUCCESS"
  ELSE "INSTALL_ERROR"

\* ReadSourceTargetBuild
SourceTargetBuild(md) ==
  (IF md.pre_build_incremental # ""
   THEN <<<<Word("source_build:"), SP, Word(md.pre_build_incremental)>>>> ELSE <<>>)
  \o
  (IF md.post_build_incremental # ""
   THEN <<<<Word("target_build:"), SP, Word(md.post_build_incremental)>>>> ELSE <<>>)

\* the second line of the install log
LogFlag(r) == IF r = "INSTALL_SUCCESS" THEN "1" ELSE "0"

\* the first four lines of the install log
LogHeader(id, r, rc) ==
  <<Text(id), Text(LogFlag(r)), <<Word("time_total:"), SP, Word("t")>>,
    <<Word("retry:"), SP, Word(IF rc = 0 THEN "0" ELSE "n")>>>>

\* ShouldWipe that forgets the install result
ShouldWipe_AnyResult(r, should) == should

\* InstallPackage, the condition of the cache wipe
ShouldWipe(r, should) == r = "INSTALL_SUCCESS" /\ should

\* which updater the child executes
ExecEvent(is_ab, rc) ==
  IF is_ab THEN "execv update_engine_sideload"
  ELSE IF rc > 0 THEN "execv update-binary retry"
  ELSE "execv update-binary"

(***************************************************************************)
(* State after the process has started.                                    *)
(***************************************************************************)
NoCall == [ab_child_ok |-> FALSE, tub_result |-> "none"]

CallLocalsIdle ==
  /\ pc = "idle"
  /\ package = NullPackage
  /\ should_wipe_cache = FALSE
  /\ caller_wipe_cache = FALSE
  /\ retry_count = 0
  /\ text_visible = FALSE
  /\ updater_wipe_cache = FALSE
  /\ retry_update = FALSE
  /\ log_buffer = <<>>
  /\ from_child = <<>>
  /\ child_output = <<>>
  /\ child_status = "none"
  /\ tub_result = "none"
  /\ tub_exit = "none"
  /\ result = "unset"
  /\ install_log = <<>>
  /\ trace = <<>>

Init ==
  /\ device \in Devices
  /\ ab_package_installed = FALSE
  /\ logical_partitions_auto_mapped = FALSE
  /\ dm_mapped \in {FALSE, device.dynamic_partitions}
  /\ prev = NoCall
  /\ CallLocalsIdle
  /\ VolumeIdle
  /\ ManagerIdle
  /\ LockIdle
  /\ UtilIdle
  /\ AppIdle

statics == <<device, ab_package_installed, logical_partitions_auto_mapped, dm_mapped,
             prev>>

\* a caller invokes InstallPackage(package, package_id, should_wipe_cache, retry_count)
Call ==
  /\ UNCHANGED volmgr_vars
  /\ pc = "idle"
  /\ \E p \in Packages, w \in BOOLEAN, rc \in RetryCounts, tv \in BOOLEAN :
       /\ package' = p
       /\ should_wipe_cache' = w
       /\ caller_wipe_cache' = w
       /\ retry_count' = rc
       /\ text_visible' = tv
  /\ pc' = "start"
  /\ UNCHANGED <<statics, updater_wipe_cache, retry_update, log_buffer, from_child,
                 child_output, child_status, tub_result, tub_exit, result,
                 install_log, trace>>

\* InstallPackage: the null check and setup_install_mounts
IP_Start ==
  /\ UNCHANGED volmgr_vars
  /\ pc = "start"
  /\ \E mounts_ok \in BOOLEAN :
       LET o == StartOutcome(package.null, mounts_ok) IN
       /\ trace' = IF package.null THEN trace
                   ELSE trace \o <<"setup_install_mounts">>
                              \o (IF mounts_ok THEN <<>> ELSE <<"mounts failed">>)
       /\ log_buffer' = IF o = "corrupt"
                        THEN Append(log_buffer, Text("error: kMapFileFailure"))
                        ELSE log_buffer
       /\ result' = CASE o = "corrupt" -> "INSTALL_CORRUPT"
                      [] o = "error"   -> "INSTALL_ERROR"
                      [] OTHER         -> result
       /\ pc' = IF o = "verify" THEN "verify" ELSE "log"
  /\ UNCHANGED <<statics, caller_wipe_cache, package, should_wipe_cache, retry_count, text_visible,
                 updater_wipe_cache, retry_update, from_child, child_output,
                 child_status, tub_result, tub_exit, install_log>>

\* VerifyAndInstallPackage up to the call of TryUpdateBinary
VIP_Verify ==
  /\ UNCHANGED volmgr_vars
  /\ pc = "verify"
  /\ \E verify_ok \in BOOLEAN, answer \in BOOLEAN :
       LET o == VerifyOutcome(verify_ok, text_visible, answer) IN
       /\ trace' = trace \o <<"verify_package">>
                         \o (IF ~verify_ok THEN <<"verification failed">> ELSE <<>>)
                         \o (IF ~verify_ok /\ text_visible
                             THEN <<"ask_to_continue_unverified",
                                    IF answer THEN "answer yes" ELSE "answer no">>
                             ELSE <<>>)
       /\ log_buffer' = IF verify_ok THEN log_buffer
                        ELSE Append(log_buffer, Text("error: kZipVerificationFailure"))
       /\ result' = IF o = "corrupt" THEN "INSTALL_CORRUPT" ELSE result
       /\ pc' = IF o = "corrupt" THEN "log" ELSE "tub"
  /\ UNCHANGED <<statics, caller_wipe_cache, package, should_wipe_cache, retry_count, text_visible,
                 updater_wipe_cache, retry_update, from_child, child_output,
                 child_status, tub_result, tub_exit, install_log>>

\* TryUpdateBinary from its entry to the metadata check
TUB_Checks ==
  /\ UNCHANGED volmgr_vars
  /\ pc = "tub"
  /\ \E wiped \in BOOLEAN, answer \in BOOLEAN, reboot \in BOOLEAN :
       LET o == ChecksOutcome(package, device, ab_package_installed, text_visible, answer)
           asks == /\ package_is_ab(package) \/ device_only_supports_ab(device)
                   /\ ~package_is_brick(package)
                   /\ ~ViolatesSPLDowngrade(package)
                   /\ ~ab_package_installed
                   /\ text_visible
                   /\ ~CheckPackageMetadata(Metadata(package), "AB", device, FALSE, FALSE)
                   /\ CheckPackageMetadata(Metadata(package), "AB", device, TRUE, TRUE)
       IN
       /\ trace' = trace \o <<"TryUpdateBinary">>
                     \o (CASE o = "brick"    -> <<"WipeAbDevice">>
                           [] o = "one_shot" -> <<"ask_to_ab_reboot">>
                                                \o (IF reboot THEN <<"Reboot">> ELSE <<>>)
                           [] asks           -> <<"ask_to_continue_downgrade">>
                           [] OTHER          -> <<>>)
       /\ log_buffer' = IF o = "metadata"
                        THEN Append(log_buffer, Text("error: kUpdateBinaryCommandFailure"))
                        ELSE log_buffer
       /\ tub_result' = CASE o = "brick" -> IF wiped THEN "INSTALL_SUCCESS"
                                            ELSE "INSTALL_ERROR"
                          [] o = "continue" -> tub_result
                          [] OTHER -> "INSTALL_ERROR"
       /\ tub_exit' = IF o = "continue" THEN tub_exit ELSE o
       /\ pc' = IF o = "continue" THEN "partitions" ELSE "vip_ret"
  /\ UNCHANGED <<device, ab_package_installed, logical_partitions_auto_mapped, dm_mapped,
                 prev, caller_wipe_cache, package, should_wipe_cache, retry_count, text_visible,
                 updater_wipe_cache, retry_update, from_child, child_output,
                 child_status, result, install_log>>

\* map_logical_partitions() of roots.cpp; created is what CreateLogicalPartitions
\* returns, partial whether a failed attempt left a device behind
MapLogicalPartitions(created, partial) ==
  IF device.dynamic_partitions /\ ~logical_partitions_mapped
  THEN /\ logical_partitions_auto_mapped' = created
       /\ dm_mapped' = (created \/ partial)
  ELSE UNCHANGED <<logical_partitions_auto_mapped, dm_mapped>>

\* TryUpdateBinary: the partition-mapping precondition and ReadSourceTargetBuild
TUB_Partitions ==
  /\ UNCHANGED volmgr_vars
  /\ pc = "partitions"
  /\ LET o == PartitionsOutcome(package_is_ab(package), device.virtual_ab,
                                logical_partitions_mapped) IN
     /\ IF o = "map"
        THEN \E created \in BOOLEAN, partial \in BOOLEAN :
               MapLogicalPartitions(created, partial)
        ELSE UNCHANGED <<logical_partitions_auto_mapped, dm_mapped>>
     /\ trace' = IF o = "map"
                 THEN trace \o <<"CreateSnapshotPartitions", "map_logical_partitions">>
                 ELSE trace
     /\ log_buffer' = IF o = "abort" THEN log_buffer
                      ELSE log_buffer \o SourceTargetBuild(Metadata(package))
     /\ tub_result' = IF o = "abort" THEN "INSTALL_ERROR" ELSE tub_result
     /\ tub_exit' = IF o = "abort" THEN "mapped" ELSE tub_exit
     /\ pc' = IF o = "abort" THEN "vip_ret" ELSE "spawn"
  /\ UNCHANGED <<device, ab_package_installed, prev, caller_wipe_cache, package,
                 should_wipe_cache, retry_count, text_visible, updater_wipe_cache,
                 retry_update, from_child, child_output, child_status, result,
                 install_log>>

\* TryUpdateBinary: the pipe, the command line and fork
TUB_Spawn ==
  /\ UNCHANGED volmgr_vars
  /\ pc = "spawn"
  /\ \E pipe_ok \in BOOLEAN, setup_ok \in BOOLEAN, fork_ok \in BOOLEAN,
        out \in ChildOutputs :
       LET o == IF ~pipe_ok THEN "pipe"
                ELSE IF ~setup_ok THEN "setup"
                ELSE IF ~fork_ok THEN "fork" ELSE "child"
       IN
       /\ log_buffer' =
            CASE o = "setup" -> Append(log_buffer, Text("error: kUpdateBinaryCommandFailure"))
              [] o = "fork"  -> Append(log_buffer, Text("error: kForkUpdateBinaryFailure"))
              [] OTHER       -> log_buffer
       /\ tub_result' = CASE o \in {"pipe", "setup"} -> "INSTALL_CORRUPT"
                          [] o = "fork" -> "INSTALL_ERROR"
                          [] OTHER -> tub_result
       /\ tub_exit' = IF o = "child" THEN tub_exit ELSE o
       /\ trace' = IF o = "child"
                   THEN trace \o <<"fork", ExecEvent(package_is_ab(package), retry_count)>>
                   ELSE trace
       /\ child_output' = IF o = "child" THEN out ELSE child_output
       /\ from_child' = IF o = "child" THEN Concat(out) ELSE from_child
       /\ updater_wipe_cache' = IF o = "child" THEN FALSE ELSE updater_wipe_cache
       /\ pc' = IF o = "child" THEN "read" ELSE "vip_ret"
  /\ UNCHANGED <<statics, caller_wipe_cache, package, should_wipe_cache, retry_count, text_visible,
                 retry_update, child_status, result, install_log>>

\* TryUpdateBinary: one iteration of the read loop
TUB_ReadLine ==
  /\ UNCHANGED volmgr_vars
  /\ pc = "read"
  /\ from_child # <<>>
  /\ LET f  == Fgets(from_child)
         st == ProcessLine(f.chunk, [wipe |-> updater_wipe_cache, retry |-> retry_update,
                                     log |-> log_buffer])
         ui == LineUiCall(f.chunk)
     IN
     /\ from_child' = f.rest
     /\ updater_wipe_cache' = st.wipe
     /\ retry_update' = st.retry
     /\ log_buffer' = st.log
     /\ trace' = IF ui = "" THEN trace ELSE Append(trace, ui)
  /\ UNCHANGED <<statics, pc, caller_wipe_cache, package, should_wipe_cache, retry_count, text_visible,
                 child_output, child_status, tub_result, tub_exit, result, install_log>>

\* TryUpdateBinary from end of file on the pipe to its return
TUB_Finish ==
  /\ UNCHANGED volmgr_vars
  /\ pc = "read"
  /\ from_child = <<>>
  /\ \E status \in ChildStatuses, powerwash \in BOOLEAN, auto_reboot \in BOOLEAN,
        reboot \in BOOLEAN :
       LET r == ExitResult(retry_update, status)
           installed == r = "INSTALL_SUCCESS" /\ package_is_ab(package)
       IN
       /\ child_status' = status
       /\ tub_result' = r
       /\ tub_exit' = "child"
       /\ ab_package_installed' = (ab_package_installed \/ installed)
       /\ trace' = trace \o <<"waitpid">>
                     \o (IF installed /\ powerwash THEN <<"WipeData">> ELSE <<>>)
                     \o (IF installed /\ ~auto_reboot THEN <<"ask_to_ab_reboot">> ELSE <<>>)
                     \o (IF installed /\ ~auto_reboot /\ reboot THEN <<"Reboot">> ELSE <<>>)
  /\ pc' = "vip_ret"
  /\ UNCHANGED <<device, logical_partitions_auto_mapped, dm_mapped, prev, caller_wipe_cache, package,
                 should_wipe_cache, retry_count, text_visible, updater_wipe_cache,
                 retry_update, log_buffer, from_child, child_output, result,
                 install_log>>

\* TryUpdateBinary and VerifyAndInstallPackage return to InstallPackage
VIP_Return ==
  /\ UNCHANGED volmgr_vars
  /\ pc = "vip_ret"
  /\ result' = tub_result
  /\ should_wipe_cache' = (should_wipe_cache \/ updater_wipe_cache)
  /\ pc' = "log"
  /\ UNCHANGED <<statics, caller_wipe_cache, package, retry_count, text_visible, updater_wipe_cache,
                 retry_update, log_buffer, from_child, child_output, child_status,
                 tub_result, tub_exit, install_log, trace>>

\* InstallPackage: the install log.  The uncrypt status and the temperature
\* lines, which follow the updater's lines in the log buffer, are left out.
IP_Log ==
  /\ UNCHANGED volmgr_vars
  /\ pc = "log"
  /\ install_log' = LogHeader(CHOOSE id \in PackageIds : TRUE, result, retry_count)
                      \o log_buffer
  /\ trace' = Append(trace, "WriteStringToFile")
  /\ pc' = "wipe"
  /\ UNCHANGED <<statics, caller_wipe_cache, package, should_wipe_cache, retry_count, text_visible,
                 updater_wipe_cache, retry_update, log_buffer, from_child,
                 child_output, child_status, tub_result, tub_exit, result>>

\* InstallPackage: the cache wipe and the return; WipeCache and EraseVolume of
\* wipe_data.cpp
IP_WipeCache ==
  /\ UNCHANGED volmgr_vars
  /\ pc = "wipe"
  /\ IF ShouldWipe(result, should_wipe_cache)
     THEN \E erased \in BOOLEAN, created \in BOOLEAN, partial \in BOOLEAN :
            /\ trace' = trace \o <<"WipeCache">>
                          \o (IF device.has_cache THEN <<"EraseVolume /cache">> ELSE <<>>)
                          \o (IF device.has_cache /\ erased THEN <<>>
                              ELSE <<"cache wipe failed">>)
            /\ IF device.has_cache /\ device.cache_logical
               THEN MapLogicalPartitions(created, partial)
               ELSE UNCHANGED <<logical_partitions_auto_mapped, dm_mapped>>
            /\ result' = IF device.has_cache /\ erased THEN result ELSE "INSTALL_ERROR"
     ELSE UNCHANGED <<trace, logical_partitions_auto_mapped, dm_mapped, result>>
  /\ pc' = "done"
  /\ UNCHANGED <<device, ab_package_installed, prev, caller_wipe_cache, package,
                 should_wipe_cache, retry_count, text_visible, updater_wipe_cache,
                 retry_update, log_buffer, from_child, child_output, child_status,
                 tub_result, tub_exit, install_log>>

\* the strings fgets returns, one after the other, for what the child wrote
RECURSIVE LinesRead(_)
LinesRead(stream) ==
  IF stream = <<>> THEN <<>>
  ELSE LET f == Fgets(stream) IN <<f.chunk>> \o LinesRead(f.rest)

\* the parent has read a line from the child whose command is kw
CommandRead(out, kw) ==
  LET read == LinesRead(Concat(out))
  IN  \E i \in 1..Len(read) : LineCommand(read[i]) = Text(kw)

\* the updater child of the current call has exited with status 0 and asked
\* for no retry
ChildSucceeded == child_status = "exit0" /\ ~CommandRead(child_output, "retry_update")

\* history of the process: whether the call that has just returned ran the
\* updater child of an A/B package to success, and what TryUpdateBinary returned
Summary ==
  IF package_is_ab(package) /\ ChildSucceeded
  THEN [ab_child_ok |-> TRUE, tub_result |-> tub_result]
  ELSE NoCall

\* the caller takes the result; the process is ready for another call
Return ==
  /\ UNCHANGED volmgr_vars
  /\ pc = "done"
  /\ prev' = Summary
  /\ pc' = "idle"
  /\ package' = NullPackage
  /\ should_wipe_cache' = FALSE
  /\ caller_wipe_cache' = FALSE
  /\ retry_count' = 0
  /\ text_visible' = FALSE
  /\ updater_wipe_cache' = FALSE
  /\ retry_update' = FALSE
  /\ log_buffer' = <<>>
  /\ from_child' = <<>>
  /\ child_output' = <<>>
  /\ child_status' = "none"
  /\ tub_result' = "none"
  /\ tub_exit' = "none"
  /\ result' = "unset"
  /\ install_log' = <<>>
  /\ trace' = <<>>
  /\ UNCHANGED <<device, ab_package_installed, logical_partitions_auto_mapped,
                 dm_mapped>>

\* the reboot requested by Reboot("recovery") ends the process, at any point of
\* the call that requested it; recovery starts anew
Restart ==
  /\ UNCHANGED volmgr_vars
  /\ \E i \in 1..Len(trace) : trace[i] = "Reboot"
  /\ device' = device
  /\ ab_package_installed' = FALSE
  /\ logical_partitions_auto_mapped' = FALSE
  /\ dm_mapped' \in {FALSE, device.dynamic_partitions}
  /\ prev' = NoCall
  /\ pc' = "idle"
  /\ package' = NullPackage
  /\ should_wipe_cache' = FALSE
  /\ caller_wipe_cache' = FALSE
  /\ retry_count' = 0
  /\ text_visible' = FALSE
  /\ updater_wipe_cache' = FALSE
  /\ retry_update' = FALSE
  /\ log_buffer' = <<>>
  /\ from_child' = <<>>
  /\ child_output' = <<>>
  /\ child_status' = "none"
  /\ tub_result' = "none"
  /\ tub_exit' = "none"
  /\ result' = "unset"
  /\ install_log' = <<>>
  /\ trace' = <<>>

Next ==
  \/ Call
  \/ IP_Start
  \/ VIP_Verify
  \/ TUB_Checks
  \/ TUB_Partitions
  \/ TUB_Spawn
  \/ TUB_ReadLine
  \/ TUB_Finish
  \/ VIP_Return
  \/ IP_Log
  \/ IP_WipeCache
  \/ Return
  \/ Restart

Spec == Init /\ [][Next]_vars


(***************************************************************************)
(* The read loop on its own: the state right after fork of the updater     *)
(* of a legacy package, for every child output of at most MaxLines lines.  *)
(***************************************************************************)
ProtocolDevice ==
  CHOOSE d \in Devices : ~d.dynamic_partitions /\ ~d.virtual_ab /\ d.has_cache

ProtocolPackage ==
  [null |-> FALSE, has_metadata |-> FALSE, metadata |-> EmptyMetadata,
   spl_older |-> FALSE]

InitProtocol ==
  /\ device = ProtocolDevice
  /\ ab_package_installed = FALSE
  /\ logical_partitions_auto_mapped = FALSE
  /\ dm_mapped = FALSE
  /\ prev = NoCall
  /\ pc = "read"
  /\ package = ProtocolPackage
  /\ should_wipe_cache = FALSE
  /\ caller_wipe_cache = FALSE
  /\ retry_count = 0
  /\ text_visible = FALSE
  /\ updater_wipe_cache = FALSE
  /\ retry_update = FALSE
  /\ log_buffer = <<>>
  /\ child_output \in SeqsUpTo(ProtocolLines, MaxLines)
  /\ from_child = Concat(child_output)
  /\ child_status = "none"
  /\ tub_result = "none"
  /\ tub_exit = "none"
  /\ result = "unset"
  /\ install_log = <<>>
  /\ trace = <<"setup_install_mounts", "verify_package", "TryUpdateBinary",
               "CreateSnapshotPartitions", "map_logical_partitions", "fork",
               "execv update-binary">>
  /\ VolumeIdle
  /\ ManagerIdle
  /\ LockIdle
  /\ UtilIdle
  /\ AppIdle

NextProtocol ==
  \/ TUB_ReadLine
  \/ TUB_Finish

SpecProtocol == InitProtocol /\ [][NextProtocol]_vars


(***************************************************************************)
(* volume_manager/VolumeBase.cpp and its subtypes.                         *)
(*                                                                         *)
(* A volume is handled as a context c: the object's fields (c.v), the      *)
(* notifications its watcher has received (c.ev), the values assigned to   *)
(* mState (c.st), the subtype hooks that ran (c.hooks), the identity the    *)
(* object had when mCreated was set (c.snap) and the status_t of the last  *)
(* call (c.res).  Every operation is a function from context to context.   *)
(***************************************************************************)
MaxCalls == 4

NoIds == [diskId |-> "?", partGuid |-> "?", partLabel |-> "?"]

Ids(v) == [diskId |-> v.mDiskId, partGuid |-> v.mPartGuid, partLabel |-> v.mPartLabel]

Ret(c, res) == [c EXCEPT !.res = res]

Hook(c, name) == [c EXCEPT !.hooks = Append(@, name)]

\* VolumeManager::notifyEvent: mWatcher->handleEvent(code, argv)
notifyEvent(c, code, argv) ==
  [c EXCEPT !.ev = Append(@, [code |-> code, argv |-> argv])]

\* mState = state
AssignState(c, state) ==
  [c EXCEPT !.v.mState = state, !.st = Append(@, state)]

setState_Silent(c, state) == AssignState(c, state)

setState(c, state) ==
  notifyEvent(AssignState(c, state), "VolumeStateChanged", <<state>>)

setDiskId(c, diskId) ==
  IF c.v.mCreated THEN Ret(c, "-EBUSY")
  ELSE Ret([c EXCEPT !.v.mDiskId = diskId], "OK")

setPartGuid(c, partGuid) ==
  IF c.v.mCreated THEN Ret(c, "-EBUSY")
  ELSE Ret([c EXCEPT !.v.mPartGuid = partGuid], "OK")

\* the state test only logs a warning
setPartLabel(c, partLabel) ==
  Ret([c EXCEPT !.v.mPartLabel = partLabel], "OK")

setPath(c, path) ==
  Ret(notifyEvent([c EXCEPT !.v.mPath = path], "VolumePathChanged", path), "OK")

\* a path is a sequence of components; <<>> is the empty string
StoragePath(name) == <<"/storage", name>>

\* what probing the block device (ReadMetadataUntrusted) and creating its
\* node yield
Probes ==
  { [fsType |-> "vfat", fsUuid |-> "",          fsLabel |-> "",     node |-> "OK"],
    [fsType |-> "vfat", fsUuid |-> "1234-ABCD", fsLabel |-> "DISK", node |-> "OK"],
    [fsType |-> "vfat", fsUuid |-> "1234-ABCD", fsLabel |-> "DISK", node |-> "-EIO"] }

NoProbe == [fsType |-> "", fsUuid |-> "", fsLabel |-> "", node |-> "OK"]

VolumeFields(type, id, label) ==
  [type |-> type, mId |-> id, mDiskId |-> "", mPartGuid |-> "", mPartLabel |-> label,
   mCreated |-> FALSE, mState |-> "kUnmounted", mPath |-> <<>>,
   mFsType |-> "", mFsUuid |-> ""]

NewContext(v) ==
  [v |-> v, ev |-> <<>>, st |-> <<>>, hooks |-> <<>>, snap |-> NoIds, res |-> "OK"]

\* PublicVolume::PublicVolume(device, nickname, fstype, mntopts)
PublicVolume(id, nickname) ==
  setPartLabel(NewContext(VolumeFields("kPublic", id, "")), nickname)

\* EmulatedVolume::EmulatedVolume(rec, subdir)
EmulatedVolume ==
  setPath(setPartLabel(NewContext(VolumeFields("kEmulated", "emulated", "")),
                       "internal storage"),
          <<"/storage", "emulated">>)

\* if (!label.empty()) setPartLabel(label)
ReadLabel(c, label) == IF label = "" THEN c ELSE setPartLabel(c, label)

PublicVolume_readMetadata(c, probe) ==
  notifyEvent(
    notifyEvent(
      ReadLabel([c EXCEPT !.v.mFsType = probe.fsType, !.v.mFsUuid = probe.fsUuid],
                probe.fsLabel),
      "VolumeFsTypeChanged", <<probe.fsType>>),
    "VolumeFsUuidChanged", <<probe.fsUuid>>)

\* use UUID as stable name, if available
SetStablePath(c) ==
  setPath(c, StoragePath(IF c.v.mFsUuid # "" THEN c.v.mFsUuid ELSE c.v.mId))

PublicVolume_doCreate(c, probe) ==
  Ret(SetStablePath(PublicVolume_readMetadata(Hook(c, "doCreate"), probe)), probe.node)

VolumeBase_doCreate(c) == Ret(Hook(c, "doCreate"), "OK")

doCreate(c, probe) ==
  IF c.v.type = "kPublic" THEN PublicVolume_doCreate(c, probe)
  ELSE VolumeBase_doCreate(c)

\* PublicVolume: DestroyDeviceNode(mDevPath); otherwise VolumeBase::doDestroy
doDestroy(c, node) ==
  Ret(Hook(c, "doDestroy"), IF c.v.type = "kPublic" THEN node ELSE "OK")

\* the outcome of the checks and mount syscalls of the subtype
doMount(c, mounted) == Ret(Hook(c, "doMount"), mounted)

\* KillProcessesUsingPath, ForceUnmount and rmdir: their results are dropped
doUnmount(c, detach) ==
  Ret(Hook(c, IF detach THEN "doUnmount detach" ELSE "doUnmount"), "OK")

TypeArg(v) == IF v.type = "kPublic" THEN "0" ELSE "2"

\* create() after doCreate: c.res is the result of doCreate, which create
\* returns
NotifyCreated(c, argv) ==
  IF c.res # "OK" THEN c
  ELSE IF c.v.mPartLabel = "" THEN notifyEvent(c, "VolumeCreated", argv)
  ELSE notifyEvent(notifyEvent(c, "VolumeCreated", argv),
                   "VolumeFsLabelChanged", <<c.v.mPartLabel>>)

VolumeBase_create(c, probe) ==
  IF c.v.mCreated THEN Ret(c, "BAD_VALUE")
  ELSE setState(
         NotifyCreated(
           doCreate([c EXCEPT !.v.mCreated = TRUE, !.snap = Ids(c.v)], probe),
           <<TypeArg(c.v), c.v.mDiskId, c.v.mPartGuid>>),
         "kUnmounted")

VolumeBase_unmount_OnlyMounted(c, detach) ==
  IF c.v.mState # "kMounted" THEN Ret(c, "-EBUSY")
  ELSE setState(doUnmount(setState(c, "kEjecting"), detach), "kUnmounted")

\* the result of doUnmount is what unmount returns
VolumeBase_unmount(c, detach) ==
  setState(doUnmount(setState(c, "kEjecting"), detach), "kUnmounted")

ClearCreated(c) == [c EXCEPT !.v.mCreated = FALSE]

VolumeBase_destroy_NoUnmount(c, node) ==
  IF ~c.v.mCreated THEN Ret(c, "NO_INIT")
  ELSE ClearCreated(
         doDestroy(
           notifyEvent(
             IF c.v.mState = "kMounted" THEN setState(c, "kBadRemoval")
             ELSE setState(c, "kRemoved"),
             "VolumeDestroyed", <<>>),
           node))

\* the result of doDestroy is what destroy returns
VolumeBase_destroy(c, node) ==
  IF ~c.v.mCreated THEN Ret(c, "NO_INIT")
  ELSE ClearCreated(
         doDestroy(
           notifyEvent(
             IF c.v.mState = "kMounted"
             THEN setState(VolumeBase_unmount(c, TRUE), "kBadRemoval")
             ELSE setState(c, "kRemoved"),
             "VolumeDestroyed", <<>>),
           node))

\* mount() after doMount: c.res is the result of doMount, which mount returns
Mounted_Always(c) == setState(c, "kMounted")

Mounted(c) == setState(c, IF c.res = "OK" THEN "kMounted" ELSE "kUnmountable")

VolumeBase_mount_NoGuard(c, mounted) ==
  Mounted(doMount(setState(c, "kChecking"), mounted))

VolumeBase_mount(c, mounted) ==
  IF c.v.mState # "kUnmounted" /\ c.v.mState # "kUnmountable" THEN Ret(c, "-EBUSY")
  ELSE Mounted(doMount(setState(c, "kChecking"), mounted))

(***************************************************************************)
(* The contract of one VolumeBase object: a client that holds the object   *)
(* calls its public operations in any order.                               *)
(***************************************************************************)
InitVolume ==
  /\ volume \in {PublicVolume("public:8_1", "sdcard"), PublicVolume("public:8_1", ""),
                 EmulatedVolume}
  /\ vlast = [op |-> "none", arg |-> "OK", pre |-> volume]
  /\ ncalls = 0
  /\ device = ProtocolDevice
  /\ ab_package_installed = FALSE
  /\ logical_partitions_auto_mapped = FALSE
  /\ dm_mapped = FALSE
  /\ prev = NoCall
  /\ CallLocalsIdle
  /\ ManagerIdle
  /\ LockIdle
  /\ UtilIdle
  /\ AppIdle

\* bookkeeping of a call: what was called, what the environment answered
\* (arg) and the context before it
Called(op, arg) ==
  /\ vlast' = [op |-> op, arg |-> arg, pre |-> volume]
  /\ ncalls' = ncalls + 1
  /\ UNCHANGED <<install_vars, manager_vars, lock_vars, util_vars, app_vars>>

VolCreate ==
  /\ ncalls < MaxCalls
  /\ \E probe \in Probes :
       /\ volume' = VolumeBase_create(volume, probe)
       /\ Called("create", probe.node)

VolMount ==
  /\ ncalls < MaxCalls
  /\ \E mounted \in {"OK", "-EIO"} :
       /\ volume' = VolumeBase_mount(volume, mounted)
       /\ Called("mount", mounted)

VolUnmount ==
  /\ ncalls < MaxCalls
  /\ \E detach \in BOOLEAN :
       /\ volume' = VolumeBase_unmount(volume, detach)
       /\ Called("unmount", "OK")

VolDestroy ==
  /\ ncalls < MaxCalls
  /\ \E node \in {"OK", "-EIO"} :
       /\ volume' = VolumeBase_destroy(volume, node)
       /\ Called("destroy", node)

VolSetDiskId ==
  /\ ncalls < MaxCalls
  /\ volume' = setDiskId(volume, "disk:8_0")
  /\ Called("setDiskId", "OK")

VolSetPartGuid ==
  /\ ncalls < MaxCalls
  /\ volume' = setPartGuid(volume, "EBD0A0A2")
  /\ Called("setPartGuid", "OK")

VolSetPartLabel ==
  /\ ncalls < MaxCalls
  /\ volume' = setPartLabel(volume, "renamed")
  /\ Called("setPartLabel", "OK")

NextVolume ==
  \/ VolCreate
  \/ VolMount
  \/ VolUnmount
  \/ VolDestroy
  \/ VolSetDiskId
  \/ VolSetPartGuid
  \/ VolSetPartLabel

SpecVolume == InitVolume /\ [][NextVolume]_vars

\* what the last call added to a log of the context
Added(log, before) == SubSeq(log, Len(before) + 1, Len(log))

StatesDuring == Added(volume.st, vlast.pre.st)

EventsDuring == Added(volume.ev, vlast.pre.ev)

HooksDuring == Added(volume.hooks, vlast.pre.hooks)

\* the states carried by the state-change notifications of a log, in order
RECURSIVE NotifiedStates(_)
NotifiedStates(ev) ==
  IF ev = <<>> THEN <<>>
  ELSE IF Head(ev).code = "VolumeStateChanged"
       THEN <<Head(ev).argv[1]>> \o NotifiedStates(Tail(ev))
       ELSE NotifiedStates(Tail(ev))

(***************************************************************************)
(* volume_manager/Disk.cpp, DiskPartition.cpp and VolumeManager.cpp.       *)
(*                                                                         *)
(* A disk is handled as a context dc: the Disk object (dc.d), the          *)
(* notifications sent while the operation ran, each tagged with the id of  *)
(* the object that sent it (dc.ev), and the volume objects the operation   *)
(* destroyed or dropped, as they were left (dc.dead).                      *)
(***************************************************************************)
MaxDisks == 2

kMajorBlockScsiA == 8

kMajorBlockMmc == 179

\* the block devices of the board: a USB stick and an SD card slot
BlockDevices ==
  { [path |-> "/devices/usb/block/sda", major |-> kMajorBlockScsiA, minor |-> 0],
    [path |-> "/devices/mmc/block/mmcblk1", major |-> kMajorBlockMmc, minor |-> 0] }

makedev(major, minor) == <<major, minor>>

\* the fstab entries process_config hands to addDiskSource: the USB stick as
\* a whole disk, partition 1 of the SD card, and a later entry whose pattern
\* matches both
ConfiguredSources ==
  << [paths |-> {"/devices/usb/block/sda"}, nickname |-> "usb", partnum |-> -1],
     [paths |-> {"/devices/mmc/block/mmcblk1"}, nickname |-> "sdcard", partnum |-> 1],
     [paths |-> {"/devices/usb/block/sda", "/devices/mmc/block/mmcblk1"},
      nickname |-> "storage", partnum |-> 2] >>

DiskSource_matches(source, sysPath) == sysPath \in source.paths

VolumeIdOf(dev) == <<"public", dev[1], dev[2]>>

DiskIdOf(dev) == <<"disk", dev[1], dev[2]>>

EmulatedId == <<"emulated">>

kGptBasicData == "EBD0A0A2-B9E5-4433-87C0-68B6B72699C7"

kGptLinuxFilesystem == "0FC63DAF-8483-4772-8E79-3D69D8477DE4"

\* a text is a sequence of characters where it is parsed
Digits == <<"0", "1", "2", "3", "4", "5", "6", "7", "8", "9">>

HexLower == <<"a", "b", "c", "d", "e", "f">>

HexUpper == <<"A", "B", "C", "D", "E", "F">>

\* the least element of a set of indices, 0 if it is empty
First(hits) == IF hits = {} THEN 0 ELSE CHOOSE i \in hits : \A j \in hits : i <= j

IndexIn(chars, ch) == First({i \in 1..Len(chars) : chars[i] = ch})

\* the value of a digit in the base, -1 if it is none
DigitValue(ch, base) ==
  IF IndexIn(Digits, ch) # 0 THEN IndexIn(Digits, ch) - 1
  ELSE IF base = 16 /\ IndexIn(HexLower, ch) # 0 THEN 9 + IndexIn(HexLower, ch)
  ELSE IF base = 16 /\ IndexIn(HexUpper, ch) # 0 THEN 9 + IndexIn(HexUpper, ch)
  ELSE -1

\* the number the leading digits of a text spell
RECURSIVE ParseDigits(_, _, _)
ParseDigits(text, base, acc) ==
  IF text = <<>> THEN acc
  ELSE IF DigitValue(Head(text), base) < 0 THEN acc
  ELSE ParseDigits(Tail(text), base, acc * base + DigitValue(Head(text), base))

\* strtol(text, nullptr, base) and atoi(text) of a text without sign or prefix
strtol(text, base) == ParseDigits(text, base, 0)

atoi(text) == ParseDigits(text, 10, 0)

\* the GUIDs of the model spelled in lower case, and how they fold
FoldCase(guid) ==
  CASE guid = "ebd0a0a2-b9e5-4433-87c0-68b6b72699c7" -> kGptBasicData
    [] guid = "0fc63daf-8483-4772-8e79-3d69d8477de4" -> kGptLinuxFilesystem
    [] OTHER -> guid

strcasecmp(a, b) == IF FoldCase(a) = FoldCase(b) THEN 0 ELSE 1

\* (int8_t) of an int
Int8(x) == ((x + 128) % 256) - 128

(***************************************************************************)
(* What a disk answers when it is scanned: the result, table type and      *)
(* entries of sgdisk_read, and the filesystem type blkid finds on the      *)
(* whole device ("" when it finds none).  sysfs is the perdev_minors file  *)
(* of the MMC driver as the scan finds it.                                 *)
(***************************************************************************)
MaxParts == 2

PartEntry(num, type, guid) == [num |-> num, type |-> type, guid |-> guid]

PartEntries ==
  { PartEntry(1, <<"0", "c">>, kGptBasicData),
    PartEntry(2, <<"8", "3">>, "0fc63daf-8483-4772-8e79-3d69d8477de4"),
    PartEntry(1, <<"8", "2">>, "0657FD6D-A4AB-43C4-84E5-0933C84B4F4F"),
    PartEntry(0, <<"0", "b">>, kGptBasicData),
    PartEntry(16, <<"0", "7">>, kGptBasicData),
    PartEntry(3, <<"0", "E">>, "0657FD6D-A4AB-43C4-84E5-0933C84B4F4F") }

Readable(text) == [readable |-> TRUE, text |-> text]

Unreadable == [readable |-> FALSE, text |-> <<>>]

Scan(res, table, parts, fsType) ==
  [res |-> res, table |-> table, parts |-> parts, fsType |-> fsType,
   sysfs |-> Unreadable]

RECURSIVE PartLists(_)
PartLists(n) ==
  IF n = 0 THEN {<<>>}
  ELSE PartLists(n - 1) \cup
       { Append(l, e) : l \in {k \in PartLists(n - 1) : Len(k) = n - 1},
                        e \in PartEntries }

\* every scan of a disk with up to MaxParts entries
AllScans ==
  { Scan(1, "other", <<>>, "") }
  \cup { Scan(0, table, parts, fsType) :
           table \in {"MBR", "GPT", "other"}, parts \in PartLists(MaxParts),
           fsType \in {"", "vfat"} }

\* the scans of the manager's disks: sgdisk fails; no table, a filesystem on
\* the whole device; a GPT with two data partitions
Scans ==
  { Scan(1, "other", <<>>, ""),
    Scan(0, "other", <<>>, "vfat"),
    Scan(0, "GPT", << PartEntry(1, <<"0", "c">>, kGptBasicData),
                      PartEntry(2, <<"8", "3">>, "0fc63daf-8483-4772-8e79-3d69d8477de4") >>,
         "vfat") }

ManagerProbe ==
  [fsType |-> "vfat", fsUuid |-> "1234-ABCD", fsLabel |-> "DISK", node |-> "OK"]

\* what blkid reads from the whole device
WholeProbe(scan) == IF scan.fsType = "" THEN NoProbe ELSE ManagerProbe

TagEvents(src, ev) ==
  [i \in 1..Len(ev) |-> [src |-> src, code |-> ev[i].code, argv |-> ev[i].argv]]

\* Disk::Disk and DiskPartition::DiskPartition
NewDisk(devno, source) ==
  [partition |-> source.partnum # -1, mId |-> DiskIdOf(devno), mDevice |-> devno,
   mNickname |-> source.nickname, mPartNum |-> source.partnum, mCreated |-> FALSE,
   mSkipChange |-> FALSE, mVolumes |-> <<>>]

DiskContext(d) == [d |-> d, ev |-> <<>>, dead |-> <<>>, res |-> "OK"]

DiskRet(dc, res) == [dc EXCEPT !.res = res]

\* VolumeManager::Instance()->notifyEvent(code) by a disk
DiskNotify(dc, code) ==
  [dc EXCEPT !.ev = Append(@, [src |-> dc.d.mId, code |-> code, argv |-> <<>>])]

SetCreated(dc, created) == [dc EXCEPT !.d.mCreated = created]

\* mVolumes.push_back(vol), with what creating vol notified
AttachVolume(dc, c) ==
  [dc EXCEPT !.d.mVolumes = Append(@, c.v), !.ev = @ \o TagEvents(c.v.mId, c.ev)]

Disk_createPublicVolume(dc, devno, probe) ==
  AttachVolume(dc,
    VolumeBase_create(
      setDiskId(PublicVolume(VolumeIdOf(devno), dc.d.mNickname), dc.d.mId),
      probe))

\* one more volume handled in a loop over volumes
Collect(c, rest) ==
  [ev |-> TagEvents(c.v.mId, c.ev) \o rest.ev, vols |-> <<c.v>> \o rest.vols]

RECURSIVE UnmountEach(_)
UnmountEach(vols) ==
  IF vols = <<>> THEN [ev |-> <<>>, vols |-> <<>>]
  ELSE Collect(VolumeBase_unmount(NewContext(Head(vols)), FALSE),
               UnmountEach(Tail(vols)))

RECURSIVE DestroyEach(_)
DestroyEach(vols) ==
  IF vols = <<>> THEN [ev |-> <<>>, vols |-> <<>>]
  ELSE Collect(VolumeBase_destroy(NewContext(Head(vols)), "OK"),
               DestroyEach(Tail(vols)))

\* mVolumes.clear() after the loop r over the volumes
Dropped(dc, r) ==
  [dc EXCEPT !.d.mVolumes = <<>>, !.ev = @ \o r.ev, !.dead = @ \o r.vols]

Disk_destroyAllVolumes_UnmountOnly(dc) == Dropped(dc, UnmountEach(dc.d.mVolumes))

Disk_destroyAllVolumes(dc) == Dropped(dc, DestroyEach(dc.d.mVolumes))

\* Disk::destroy and DiskPartition::destroy have the same body
Disk_destroy(dc) ==
  DiskRet(DiskNotify(SetCreated(Disk_destroyAllVolumes(dc), FALSE), "DiskDestroyed"),
          "OK")

\* the label and size are read from sysfs and the device; only the three
\* notifications matter here
Disk_readMetadata(dc) ==
  IF dc.d.mSkipChange THEN DiskRet(dc, "OK")
  ELSE DiskRet(DiskNotify(DiskNotify(DiskNotify(dc, "DiskSizeChanged"),
                                     "DiskLabelChanged"),
                          "DiskSysPathChanged"),
               "OK")

\* 15 for a SCSI disk, the content of perdev_minors for an MMC disk (-errno,
\* here -2, when the file cannot be read), and -ENOTSUP (-95) for the majors
\* it does not know.  The loop major and virtio-blk are not among the
\* devices of the model.
Disk_getMaxMinors(d, sysfs) ==
  IF d.mDevice[1] = kMajorBlockScsiA THEN 15
  ELSE IF d.mDevice[1] = kMajorBlockMmc
  THEN IF sysfs.readable THEN atoi(sysfs.text) ELSE -2
  ELSE -95

\* the switch on the MBR type, the comparison of the GPT type GUID
CreatesVolume(table, part) ==
  \/ /\ table = "MBR"
     /\ strtol(part.type, 16) \in {6, 7, 11, 12, 14, 131}
  \/ /\ table = "GPT"
     /\ \/ strcasecmp(part.guid, kGptBasicData) = 0
        \/ strcasecmp(part.guid, kGptLinuxFilesystem) = 0

\* the body of the loop over the partitions
ReadPartition(dc, table, part, maxMinors) ==
  IF part.num <= 0 \/ part.num > maxMinors THEN dc
  ELSE IF CreatesVolume(table, part)
  THEN Disk_createPublicVolume(dc, makedev(dc.d.mDevice[1], dc.d.mDevice[2] + part.num),
                               ManagerProbe)
  ELSE dc

RECURSIVE ReadEach(_, _, _, _)
ReadEach(dc, table, parts, maxMinors) ==
  IF parts = <<>> THEN dc
  ELSE ReadEach(ReadPartition(dc, table, Head(parts), maxMinors), table, Tail(parts),
                maxMinors)

\* readMetadata of Utils.cpp stores the tags blkid finds and returns OK
ReadMetadataUntrusted(scan) == "OK"

\* "Ugly last ditch effort, treat entire disk as partition"
WholeDisk(dc, scan) ==
  IF scan.table = "other" \/ scan.parts = <<>>
  THEN IF ReadMetadataUntrusted(scan) = "OK"
       THEN Disk_createPublicVolume(dc, dc.d.mDevice, WholeProbe(scan))
       ELSE dc
  ELSE dc

\* readPartitions from sgdisk_read on, the volumes destroyed
ReadTable(dc, scan, maxMinors) ==
  IF scan.res # 0 THEN DiskRet(DiskNotify(dc, "DiskScanned"), scan.res)
  ELSE DiskRet(DiskNotify(WholeDisk(ReadEach(dc, scan.table, scan.parts, maxMinors),
                                    scan),
                          "DiskScanned"),
               "OK")

\* readPartitions with the int8_t maxMinors computed
ReadWith(dc, scan, maxMinors) ==
  IF maxMinors < 0 THEN DiskRet(dc, "-ENOTSUP")
  ELSE IF dc.d.mSkipChange THEN DiskRet([dc EXCEPT !.d.mSkipChange = FALSE], "OK")
  ELSE ReadTable(Disk_destroyAllVolumes(dc), scan, maxMinors)

Disk_readPartitions(dc, scan) ==
  ReadWith(dc, scan, Int8(Disk_getMaxMinors(dc.d, scan.sysfs)))

Disk_create(dc, scan) ==
  DiskRet(Disk_readPartitions(
            Disk_readMetadata(DiskNotify(SetCreated(dc, TRUE), "DiskCreated")), scan),
          "OK")

DiskPartition_create(dc) ==
  DiskRet(Disk_createPublicVolume(
            DiskNotify(SetCreated(dc, TRUE), "DiskCreated"),
            makedev(dc.d.mDevice[1], dc.d.mDevice[2] + dc.d.mPartNum), ManagerProbe),
          "OK")

\* the volumes stay in mVolumes
Kept_AsItWas(dc, r) == dc

Kept(dc, r) == [dc EXCEPT !.d.mVolumes = r.vols, !.ev = @ \o r.ev]

Disk_unmountAll(dc) == DiskRet(Kept(dc, UnmountEach(dc.d.mVolumes)), "OK")

\* index of the first volume of the disk with the id, 0 if none
Disk_findVolume(d, id) ==
  First({i \in 1..Len(d.mVolumes) : d.mVolumes[i].mId = id})

(***************************************************************************)
(* VolumeManager.  m is the manager's fields; an operation yields the new  *)
(* fields, what it notified (ev), the disks it destroyed with their former *)
(* volumes (graves) and its return value (res).                            *)
(***************************************************************************)
Manager == [mDisks |-> mDisks, mDiskSources |-> mDiskSources,
            mInternalEmulated |-> mInternalEmulated, mWatcher |-> mWatcher]

Outcome(m, ev, graves, res) == [m |-> m, ev |-> ev, graves |-> graves, res |-> res]

Grave(dc) == [disk |-> dc.d, vols |-> dc.dead, ev |-> dc.ev]

\* the greatest element of a set of indices, 0 if it is empty
Last(hits) == IF hits = {} THEN 0 ELSE CHOOSE i \in hits : \A j \in hits : i >= j

FirstSource_Last(sources, path) ==
  Last({i \in 1..Len(sources) : DiskSource_matches(sources[i], path)})

\* the first disk source matching the event path, 0 if none
FirstSource(sources, path) ==
  First({i \in 1..Len(sources) : DiskSource_matches(sources[i], path)})

CreateDisk(d, scan) ==
  IF d.partition THEN DiskPartition_create(DiskContext(d))
  ELSE Disk_create(DiskContext(d), scan)

\* mDisks.push_back(disk)
PushDisk(m, dc) == Outcome([m EXCEPT !.mDisks = Append(@, dc.d)], dc.ev, <<>>, "void")

AddFromSource(m, devno, s, scan) ==
  IF s = 0 THEN Outcome(m, <<>>, <<>>, "void")
  ELSE PushDisk(m, CreateDisk(NewDisk(devno, m.mDiskSources[s]), scan))

\* case NetlinkEvent::Action::kAdd
AddDisk(m, evt, scan) ==
  AddFromSource(m, makedev(evt.major, evt.minor),
                FirstSource(m.mDiskSources, evt.path), scan)

\* one more disk handled in a loop over mDisks: kept in the list, or erased
KeepDisk(dc, rest) ==
  [disks |-> <<dc.d>> \o rest.disks, ev |-> dc.ev \o rest.ev, graves |-> rest.graves]

EraseDisk(dc, rest) ==
  [disks |-> rest.disks, ev |-> dc.ev \o rest.ev,
   graves |-> <<Grave(dc)>> \o rest.graves]

NoDisks == [disks |-> <<>>, ev |-> <<>>, graves |-> <<>>]

RECURSIVE ChangeEach(_, _, _)
ChangeEach(disks, devno, scan) ==
  IF disks = <<>> THEN NoDisks
  ELSE KeepDisk(IF Head(disks).mDevice = devno
                THEN Disk_readPartitions(Disk_readMetadata(DiskContext(Head(disks))),
                                         scan)
                ELSE DiskContext(Head(disks)),
                ChangeEach(Tail(disks), devno, scan))

RECURSIVE RemoveEach(_, _)
RemoveEach(disks, devno) ==
  IF disks = <<>> THEN NoDisks
  ELSE IF Head(disks).mDevice = devno
  THEN EraseDisk(Disk_destroy(DiskContext(Head(disks))), RemoveEach(Tail(disks), devno))
  ELSE KeepDisk(DiskContext(Head(disks)), RemoveEach(Tail(disks), devno))

RECURSIVE UnmountDisks(_)
UnmountDisks(disks) ==
  IF disks = <<>> THEN NoDisks
  ELSE KeepDisk(Disk_unmountAll(DiskContext(Head(disks))), UnmountDisks(Tail(disks)))

RECURSIVE DestroyDisks(_)
DestroyDisks(disks) ==
  IF disks = <<>> THEN NoDisks
  ELSE EraseDisk(Disk_destroy(DiskContext(Head(disks))), DestroyDisks(Tail(disks)))

\* the result r of a loop over mDisks becomes the list
Looped(m, r) == Outcome([m EXCEPT !.mDisks = r.disks], r.ev, r.graves, "void")

\* case NetlinkEvent::Action::kChange
ChangeDisk(m, evt, scan) ==
  Looped(m, ChangeEach(m.mDisks, makedev(evt.major, evt.minor), scan))

RemoveDisk_All(m, evt) == Looped(m, DestroyDisks(m.mDisks))

\* case NetlinkEvent::Action::kRemove
RemoveDisk(m, evt) == Looped(m, RemoveEach(m.mDisks, makedev(evt.major, evt.minor)))

VolumeManager_handleBlockEvent(m, evt, scan) ==
  IF evt.devtype # "disk" THEN Outcome(m, <<>>, <<>>, "void")
  ELSE IF evt.action = "kAdd" THEN AddDisk(m, evt, scan)
  ELSE IF evt.action = "kChange" THEN ChangeDisk(m, evt, scan)
  ELSE IF evt.action = "kRemove" THEN RemoveDisk(m, evt)
  ELSE Outcome(m, <<>>, <<>>, "void")

\* where findVolume finds the id: the internal volume (disk 0), else the
\* first disk that has it
FoundAt(m, id, i) ==
  [disk |-> i, vol |-> IF i = 0 THEN 0 ELSE Disk_findVolume(m.mDisks[i], id),
   found |-> TRUE]

VolumeManager_findVolume(m, id) ==
  IF m.mInternalEmulated # nullptr /\ m.mInternalEmulated[1].mId = id
  THEN FoundAt(m, id, 0)
  ELSE IF \A i \in 1..Len(m.mDisks) : Disk_findVolume(m.mDisks[i], id) = 0
  THEN [disk |-> 0, vol |-> 0, found |-> FALSE]
  ELSE FoundAt(m, id, First({i \in 1..Len(m.mDisks) :
                               Disk_findVolume(m.mDisks[i], id) # 0}))

VolumeAt(m, at) ==
  IF at.disk = 0 THEN m.mInternalEmulated[1] ELSE m.mDisks[at.disk].mVolumes[at.vol]

PutVolume(m, at, v) ==
  IF at.disk = 0 THEN [m EXCEPT !.mInternalEmulated = <<v>>]
  ELSE [m EXCEPT !.mDisks[at.disk].mVolumes[at.vol] = v]

\* return (res == OK), the volume at `at` being left as c.v
Returned(m, at, c) ==
  Outcome(PutVolume(m, at, c.v), TagEvents(c.v.mId, c.ev), <<>>, c.res = "OK")

MountAt(m, at, mounted) ==
  IF ~at.found THEN Outcome(m, <<>>, <<>>, FALSE)
  ELSE Returned(m, at, VolumeBase_mount(NewContext(VolumeAt(m, at)), mounted))

VolumeManager_volumeMount(m, id, mounted) ==
  MountAt(m, VolumeManager_findVolume(m, id), mounted)

UnmountAt(m, at, detach) ==
  IF ~at.found THEN Outcome(m, <<>>, <<>>, FALSE)
  ELSE Returned(m, at, VolumeBase_unmount(NewContext(VolumeAt(m, at)), detach))

VolumeManager_volumeUnmount(m, id, detach) ==
  UnmountAt(m, VolumeManager_findVolume(m, id), detach)

\* e: the internal volume unmounted, if there is one; r: the loop over mDisks
AllUnmounted(m, e, r) ==
  Outcome([m EXCEPT !.mInternalEmulated = e.vols, !.mDisks = r.disks],
          e.ev \o r.ev, <<>>, TRUE)

VolumeManager_unmountAll(m) ==
  AllUnmounted(m, UnmountEach(m.mInternalEmulated), UnmountDisks(m.mDisks))

\* what start does once the internal volume is settled
StartNetlink(m, netlink) ==
  IF ~netlink THEN Outcome(m, <<>>, <<>>, FALSE) ELSE VolumeManager_unmountAll(m)

After(ev, o) == [o EXCEPT !.ev = ev \o @]

\* mInternalEmulated = new EmulatedVolume(...); mInternalEmulated->create()
StartEmulated(m, c, netlink) ==
  After(TagEvents(c.v.mId, c.ev),
        StartNetlink([m EXCEPT !.mInternalEmulated = <<c.v>>], netlink))

\* mWatcher = watcher; process_config
Configured(m) ==
  [m EXCEPT !.mWatcher = <<"watcher">>, !.mDiskSources = @ \o ConfiguredSources]

\* start(watcher): with_data says whether the fstab has a usable /data entry,
\* netlink whether the NetlinkManager started
VolumeManager_start(m, with_data, netlink) ==
  IF with_data
  THEN StartEmulated(Configured(m),
                     VolumeBase_create([EmulatedVolume EXCEPT !.v.mId = EmulatedId],
                                       NoProbe),
                     netlink)
  ELSE StartNetlink(Configured(m), netlink)

Stopped(m, r) ==
  Outcome([m EXCEPT !.mDisks = <<>>, !.mDiskSources = <<>>, !.mWatcher = nullptr],
          r.ev, r.graves, "void")

VolumeManager_stop(m) == Stopped(m, DestroyDisks(m.mDisks))

(***************************************************************************)
(* The manager over its life: start, hotplug events, mounts and unmounts   *)
(* of the volumes it lists, stop.  Each operation runs to completion.      *)
(***************************************************************************)
BlockEvents ==
  { [action |-> a, devtype |-> "disk", path |-> b.path, major |-> b.major,
     minor |-> b.minor] : a \in {"kAdd", "kChange", "kRemove"}, b \in BlockDevices }
  \cup
  { [action |-> "kAdd", devtype |-> "partition", path |-> "/devices/usb/block/sda/sda1",
     major |-> kMajorBlockScsiA, minor |-> 1],
    [action |-> "kAdd", devtype |-> "disk", path |-> "/devices/virtual/block/loop0",
     major |-> 7, minor |-> 0],
    [action |-> "kUnknown", devtype |-> "disk", path |-> "/devices/usb/block/sda",
     major |-> kMajorBlockScsiA, minor |-> 0] }

\* the ids of the volumes getVolumeInfo lists
ListedVolumes(m) ==
  { m.mInternalEmulated[i].mId : i \in 1..Len(m.mInternalEmulated) }
  \cup UNION { { m.mDisks[i].mVolumes[j].mId : j \in 1..Len(m.mDisks[i].mVolumes) } :
               i \in 1..Len(m.mDisks) }

InitManager ==
  /\ ManagerIdle
  /\ device = ProtocolDevice
  /\ ab_package_installed = FALSE
  /\ logical_partitions_auto_mapped = FALSE
  /\ dm_mapped = FALSE
  /\ prev = NoCall
  /\ CallLocalsIdle
  /\ VolumeIdle
  /\ LockIdle
  /\ unmount_call = "none"
  /\ AppIdle
  /\ perdev_minors \in {Readable(<<"8">>), Unreadable}

\* the scan as the disk answers it under the kernel of the device
Scanned(scan) == [scan EXCEPT !.sysfs = perdev_minors]

\* the operation's outcome becomes the manager's state
Done(op, arg, o) ==
  /\ mDisks' = o.m.mDisks
  /\ mDiskSources' = o.m.mDiskSources
  /\ mInternalEmulated' = o.m.mInternalEmulated
  /\ mWatcher' = o.m.mWatcher
  /\ mlast' = [op |-> op, arg |-> arg, ev |-> o.ev, graves |-> o.graves, res |-> o.res]
  /\ UNCHANGED <<install_vars, volume_vars, lock_vars, util_vars, app_vars>>

MgrStart ==
  /\ mWatcher = nullptr
  /\ \E with_data \in BOOLEAN : Done("start", <<>>, VolumeManager_start(Manager, with_data, TRUE))

MgrStop ==
  /\ mWatcher # nullptr
  /\ Done("stop", <<>>, VolumeManager_stop(Manager))

MgrBlockEvent ==
  /\ mWatcher # nullptr
  /\ \E evt \in BlockEvents, scan \in Scans :
       /\ evt.action = "kAdd" => Len(mDisks) < MaxDisks
       /\ Done(evt.action, evt,
               VolumeManager_handleBlockEvent(Manager, evt, Scanned(scan)))

MgrVolumeMount ==
  /\ mWatcher # nullptr
  /\ \E id \in ListedVolumes(Manager), mounted \in {"OK", "-EIO"} :
       Done("volumeMount", id, VolumeManager_volumeMount(Manager, id, mounted))

MgrVolumeUnmount ==
  /\ mWatcher # nullptr
  /\ \E id \in ListedVolumes(Manager), detach \in BOOLEAN :
       Done("volumeUnmount", id, VolumeManager_volumeUnmount(Manager, id, detach))

MgrUnmountAll ==
  /\ mWatcher # nullptr
  /\ Done("unmountAll", <<>>, VolumeManager_unmountAll(Manager))

NextManager ==
  \/ MgrStart
  \/ MgrStop
  \/ MgrBlockEvent
  \/ MgrVolumeMount
  \/ MgrVolumeUnmount
  \/ MgrUnmountAll

SpecManager == InitManager /\ [][NextManager]_vars

(***************************************************************************)
(* One Disk object on its own: mDisks holds it, and mlast the last call    *)
(* made on it, the scan the call was answered with, the disk before the    *)
(* call, what the call notified and what it returned.                      *)
(***************************************************************************)
MaxScans == 2

\* a USB stick, an SD card and an NVMe disk, each managed as a whole disk
DiskDevices == {makedev(kMajorBlockScsiA, 0), makedev(kMajorBlockMmc, 0), makedev(259, 0)}

WholeDiskSource == [paths |-> {}, nickname |-> "disk", partnum |-> -1]

TheDisk == mDisks[1]

InitDisk ==
  /\ \E devno \in DiskDevices : mDisks = <<NewDisk(devno, WholeDiskSource)>>
  /\ perdev_minors \in
       IF mDisks[1].mDevice[1] = kMajorBlockMmc
       THEN {Readable(<<"8">>), Readable(<<"2", "5", "6">>), Unreadable}
       ELSE {Readable(<<"8">>)}
  /\ mlast = [op |-> "none", n |-> 0, scan |-> Scanned(Scan(1, "other", <<>>, "")),
              pre |-> mDisks[1], ev |-> <<>>, res |-> "OK"]
  /\ mDiskSources = <<>>
  /\ mInternalEmulated = nullptr
  /\ mWatcher = <<"watcher">>
  /\ unmount_call = "none"
  /\ AppIdle
  /\ device = ProtocolDevice
  /\ ab_package_installed = FALSE
  /\ logical_partitions_auto_mapped = FALSE
  /\ dm_mapped = FALSE
  /\ prev = NoCall
  /\ CallLocalsIdle
  /\ VolumeIdle
  /\ LockIdle

\* the call's outcome becomes the disk
DiskDone(op, scans, scan, dc) ==
  /\ mDisks' = <<dc.d>>
  /\ mlast' = [op |-> op, n |-> mlast.n + scans, scan |-> scan, pre |-> TheDisk,
               ev |-> dc.ev, res |-> dc.res]
  /\ UNCHANGED <<mDiskSources, mInternalEmulated, mWatcher, install_vars, volume_vars,
                 lock_vars, util_vars, app_vars>>

DiskCreate ==
  /\ ~TheDisk.mCreated
  /\ mlast.n < MaxScans
  /\ \E scan \in AllScans :
       DiskDone("create", 1, Scanned(scan),
                Disk_create(DiskContext(TheDisk), Scanned(scan)))

DiskReadPartitions ==
  /\ TheDisk.mCreated
  /\ mlast.n < MaxScans
  /\ \E scan \in AllScans :
       DiskDone("readPartitions", 1, Scanned(scan),
                Disk_readPartitions(DiskContext(TheDisk), Scanned(scan)))

\* a volume of the disk is mounted through VolumeManager::volumeMount
DiskMountVolume ==
  /\ \E i \in 1..Len(TheDisk.mVolumes) :
       /\ TheDisk.mVolumes[i].mState = "kUnmounted"
       /\ DiskDone("mount", 0, mlast.scan,
                   DiskContext([TheDisk EXCEPT !.mVolumes[i] =
                      VolumeBase_mount(NewContext(TheDisk.mVolumes[i]), "OK").v]))

DiskDestroy ==
  /\ TheDisk.mCreated
  /\ DiskDone("destroy", 0, mlast.scan, Disk_destroy(DiskContext(TheDisk)))

NextDisk ==
  \/ DiskCreate
  \/ DiskReadPartitions
  \/ DiskMountVolume
  \/ DiskDestroy

SpecDisk == InitDisk /\ [][NextDisk]_vars

(***************************************************************************)
(* The manager's lock.  Two threads call the manager: the main thread its  *)
(* public operations, the NetlinkHandler's listener thread                  *)
(* handleBlockEvent for as long as the NetlinkManager is started.  An      *)
(* operation is the sequence of the steps of its body; thread[t] is the    *)
(* stack of the operations thread t is in, each with the step it is at.    *)
(***************************************************************************)
Threads == {"main", "listener"}

Step(kind, arg) == [kind |-> kind, arg |-> arg]

\* std::lock_guard<std::mutex> lock(mLock) and its destructor at the return
Locked(body) == <<Step("lock", "mLock")>> \o body \o <<Step("unlock", "mLock")>>

Steps(op) ==
  CASE op = "start" ->
         << Step("access", "mWatcher"), Step("call", "addDiskSource"),
            Step("access", "mInternalEmulated"), Step("netlink", "start"),
            Step("access", "sysfs"), Step("call", "unmountAll") >>
    [] op = "stop" ->
         << Step("access", "mDisks"), Step("access", "mDiskSources"),
            Step("netlink", "stop"), Step("access", "mWatcher") >>
    [] op = "unmountAll" ->
         Locked(<< Step("access", "mInternalEmulated"), Step("access", "mDisks") >>)
    [] op = "getVolumeInfo" ->
         Locked(<< Step("access", "mInternalEmulated"), Step("access", "mDisks") >>)
    [] op = "findVolume" ->
         << Step("access", "mInternalEmulated"), Step("access", "mDisks") >>
    [] op = "volumeMount" ->
         Locked(<< Step("call", "findVolume"), Step("access", "volume") >>)
    [] op = "volumeUnmount" ->
         Locked(<< Step("call", "findVolume"), Step("access", "volume") >>)
    [] op = "addDiskSource" -> Locked(<< Step("access", "mDiskSources") >>)
    [] op = "handleBlockEvent" ->
         Locked(<< Step("access", "mDiskSources"), Step("access", "mDisks") >>)

\* the operations each thread calls from outside the manager
MainOps == {"start", "stop", "unmountAll", "getVolumeInfo", "findVolume",
            "volumeMount", "volumeUnmount", "addDiskSource"}

ListenerOps == {"handleBlockEvent"}

Frame(op) == [op |-> op, pc |-> 1]

Top(t) == thread[t][Len(thread[t])]

\* thread t is in an operation that has a step left
Running(t) == thread[t] # <<>> /\ Top(t).pc <= Len(Steps(Top(t).op))

CurStep(t) == Steps(Top(t).op)[Top(t).pc]

At(t, kind) == Running(t) /\ CurStep(t).kind = kind

\* thread t moves to the next step of the operation it is in
Advance(t) ==
  thread' = [thread EXCEPT ![t][Len(thread[t])].pc = @ + 1]

InitLock ==
  /\ mLock = "free"
  /\ thread = [t \in Threads |-> <<>>]
  /\ listening = FALSE
  /\ device = ProtocolDevice
  /\ ab_package_installed = FALSE
  /\ logical_partitions_auto_mapped = FALSE
  /\ dm_mapped = FALSE
  /\ prev = NoCall
  /\ CallLocalsIdle
  /\ VolumeIdle
  /\ ManagerIdle
  /\ UtilIdle
  /\ AppIdle

\* a thread outside the manager calls one of its operations
LockCall ==
  /\ \E t \in Threads :
       /\ thread[t] = <<>>
       /\ \E op \in IF t = "main" THEN MainOps ELSE ListenerOps :
            /\ t = "listener" => listening
            /\ op = "start" => ~listening
            /\ thread' = [thread EXCEPT ![t] = <<Frame(op)>>]
  /\ UNCHANGED <<mLock, listening, install_vars, volume_vars, manager_vars, util_vars, app_vars>>

\* std::lock_guard's constructor: blocks until the mutex is free
LockAcquire ==
  /\ \E t \in Threads :
       /\ At(t, "lock")
       /\ mLock = "free"
       /\ mLock' = t
       /\ Advance(t)
  /\ UNCHANGED <<listening, install_vars, volume_vars, manager_vars, util_vars, app_vars>>

\* std::lock_guard's destructor
LockRelease ==
  /\ \E t \in Threads :
       /\ At(t, "unlock")
       /\ mLock' = "free"
       /\ Advance(t)
  /\ UNCHANGED <<listening, install_vars, volume_vars, manager_vars, util_vars, app_vars>>

\* the operation calls another operation of the manager
LockEnter ==
  /\ \E t \in Threads :
       /\ At(t, "call")
       /\ thread' = [thread EXCEPT ![t] = Append(@, Frame(CurStep(t).arg))]
  /\ UNCHANGED <<mLock, listening, install_vars, volume_vars, manager_vars, util_vars, app_vars>>

\* the operation has read or written the field or object of the step
LockAccess ==
  /\ \E t \in Threads :
       /\ At(t, "access")
       /\ Advance(t)
  /\ UNCHANGED <<mLock, listening, install_vars, volume_vars, manager_vars, util_vars, app_vars>>

\* mNetlinkManager->start() and ->stop(); stop joins the listener thread
LockNetlink ==
  /\ \E t \in Threads :
       /\ At(t, "netlink")
       /\ CurStep(t).arg = "stop" => thread["listener"] = <<>>
       /\ listening' = (CurStep(t).arg = "start")
       /\ Advance(t)
  /\ UNCHANGED <<mLock, install_vars, volume_vars, manager_vars, util_vars, app_vars>>

\* the operation returns to its caller, which goes on after the call
LockReturn ==
  /\ \E t \in Threads :
       /\ thread[t] # <<>>
       /\ ~Running(t)
       /\ thread' = [thread EXCEPT ![t] =
            IF Len(@) = 1 THEN <<>>
            ELSE [SubSeq(@, 1, Len(@) - 1) EXCEPT ![Len(@) - 1].pc = @ + 1]]
  /\ UNCHANGED <<mLock, listening, install_vars, volume_vars, manager_vars, util_vars, app_vars>>

NextLock ==
  \/ LockCall
  \/ LockAcquire
  \/ LockRelease
  \/ LockEnter
  \/ LockAccess
  \/ LockNetlink
  \/ LockReturn

SpecLock == InitLock /\ [][NextLock]_vars

\* the fields the disk list and the volumes are reached through
DiskState == {"mDisks", "mInternalEmulated", "volume"}

\* thread t is in a step that reads or writes the disk list or a volume
Touching(t) == At(t, "access") /\ CurStep(t).arg \in DiskState

(***************************************************************************)
(* volume_manager/Utils.cpp: ForceUnmount.  unmount_call is the call in    *)
(* progress: the statement it is at (pc, an index into the statements of   *)
(* its path), what it has attempted so far (log), the errno of the last    *)
(* failed umount2 and, once it has returned, its result.                   *)
(***************************************************************************)
\* the statements of ForceUnmount(path, false), the sleeps left out
Ladder_NoTerm == <<"umount2", "SIGINT", "umount2", "SIGKILL", "umount2">>

Ladder == <<"umount2", "SIGINT", "umount2", "SIGTERM", "umount2", "SIGKILL", "umount2">>

\* the statements of ForceUnmount(path, true)
DetachLadder == <<"umount2">>

Statements(detach) == IF detach THEN DetachLadder ELSE Ladder

\* what umount2 answers: 0, or -1 with one of these in errno
Errnos == {"EBUSY", "EPERM", "EINVAL", "ENOENT"}

\* !umount2(...) || errno == EINVAL || errno == ENOENT
Unmounted(answer) == answer \in {"0", "EINVAL", "ENOENT"}

InitUnmount ==
  /\ unmount_call = [pc |-> 0, detach |-> FALSE, log |-> <<>>, res |-> "none"]
  /\ perdev_minors = "8"
  /\ AppIdle
  /\ device = ProtocolDevice
  /\ ab_package_installed = FALSE
  /\ logical_partitions_auto_mapped = FALSE
  /\ dm_mapped = FALSE
  /\ prev = NoCall
  /\ CallLocalsIdle
  /\ VolumeIdle
  /\ ManagerIdle
  /\ LockIdle

InForceUnmount ==
  /\ unmount_call.pc > 0
  /\ unmount_call.pc <= Len(Statements(unmount_call.detach))

StatementAt == Statements(unmount_call.detach)[unmount_call.pc]

LastStatement == unmount_call.pc = Len(Statements(unmount_call.detach))

\* ForceUnmount(path, detach) is called
FU_Call ==
  /\ unmount_call.pc = 0
  /\ \E detach \in BOOLEAN :
       unmount_call' = [pc |-> 1, detach |-> detach, log |-> <<>>, res |-> "none"]
  /\ UNCHANGED <<perdev_minors, install_vars, volume_vars, manager_vars, lock_vars, app_vars>>

\* an if (!umount2(...) || ...) return OK; the last one is followed by
\* return -errno, and so is the only one of the detach path
FU_Umount ==
  /\ InForceUnmount
  /\ StatementAt = "umount2"
  /\ \E answer \in Errnos \cup {"0"} :
       unmount_call' =
         [unmount_call EXCEPT
            !.log = Append(@, [what |-> "umount2", answer |-> answer]),
            !.res = IF Unmounted(answer) THEN "OK"
                    ELSE IF LastStatement THEN <<"-", answer>> ELSE "none",
            !.pc = IF Unmounted(answer) THEN Len(Statements(unmount_call.detach)) + 1
                   ELSE @ + 1]
  /\ UNCHANGED <<perdev_minors, install_vars, volume_vars, manager_vars, lock_vars, app_vars>>

\* Process::killProcessesWithOpenFiles(cpath, signal); its result is dropped
FU_Kill ==
  /\ InForceUnmount
  /\ StatementAt # "umount2"
  /\ unmount_call' =
       [unmount_call EXCEPT !.log = Append(@, [what |-> StatementAt, answer |-> "0"]),
                            !.pc = @ + 1]
  /\ UNCHANGED <<perdev_minors, install_vars, volume_vars, manager_vars, lock_vars, app_vars>>

\* the caller goes on; the record of the call is kept until the next call
FU_Return ==
  /\ unmount_call.pc > Len(Statements(unmount_call.detach))
  /\ unmount_call' = [unmount_call EXCEPT !.pc = 0]
  /\ UNCHANGED <<perdev_minors, install_vars, volume_vars, manager_vars, lock_vars, app_vars>>

NextUnmount ==
  \/ FU_Call
  \/ FU_Umount
  \/ FU_Kill
  \/ FU_Return

SpecUnmount == InitUnmount /\ [][NextUnmount]_vars

\* ForceUnmount has returned
FU_Returned == unmount_call.res # "none"

\* what the call did, in order
Attempts == [i \in 1..Len(unmount_call.log) |-> unmount_call.log[i].what]

\* every unmount the call attempted found the mount point busy
StaysBusy ==
  \A i \in 1..Len(unmount_call.log) :
    unmount_call.log[i].what = "umount2" => unmount_call.log[i].answer = "EBUSY"

\* nothing follows an umount2 that returned 0, and the call returns OK
StopsAtSuccess ==
  \A i \in 1..Len(unmount_call.log) :
    (unmount_call.log[i].what = "umount2" /\ unmount_call.log[i].answer = "0") =>
      i = Len(unmount_call.log) /\ unmount_call.res = "OK"

(***************************************************************************)
(* volumeMount and volumeUnmount on the main thread against                *)
(* handleBlockEvent on the listener thread, statement by statement.  The   *)
(* main thread takes the lock, finds the volume (at), calls mount or       *)
(* unmount through the pointer and releases the lock; the listener takes   *)
(* the lock, destroys the volumes of the disks of the event's device,      *)
(* finishes the event (the fresh scan, or the erasure of the disk) and     *)
(* releases the lock.  stale says that the volume the main thread's        *)
(* pointer is to has been destroyed, uaf that the thread has called        *)
(* through such a pointer; mlast.log is what the watcher has been told     *)
(* since a thread last found the other one idle, each notification with    *)
(* the thread and the number of the operation that sent it; owner is the   *)
(* device of the disk that owned the volume when the main thread called,   *)
(* since the last event for that device the listener has finished while    *)
(* the main thread was waiting for the lock.                               *)
(***************************************************************************)
MaxRaceCalls == 2

RaceEvents == {e \in BlockEvents : e.devtype = "disk" /\ e.action # "kUnknown"
                                   /\ \E b \in BlockDevices : b.path = e.path}

NotFound == [disk |-> 0, vol |-> 0, found |-> FALSE]

MainIdle ==
  [pc |-> "idle", op |-> "none", id |-> <<>>, at |-> NotFound, stale |-> FALSE,
   uaf |-> FALSE, res |-> FALSE, owner |-> <<>>, since |-> "none", n |-> 0]

ListenerIdle == [pc |-> "idle", evt |-> <<>>, scan |-> <<>>, n |-> 0]

\* the mutex is taken whether or not it is free
MutexFree_Always(mutex) == TRUE

\* std::lock_guard<std::mutex> lock(mLock) goes on when the mutex is free
MutexFree(mutex) == mutex = "free"

InitRace ==
  /\ mDisks = <<>>
  /\ mDiskSources = ConfiguredSources
  /\ mInternalEmulated = nullptr
  /\ mWatcher = <<"watcher">>
  /\ mlast = [op |-> "race", log |-> <<>>]
  /\ mLock = "free"
  /\ thread = [main |-> MainIdle, listener |-> ListenerIdle]
  /\ listening = TRUE
  /\ device = ProtocolDevice
  /\ ab_package_installed = FALSE
  /\ logical_partitions_auto_mapped = FALSE
  /\ dm_mapped = FALSE
  /\ prev = NoCall
  /\ CallLocalsIdle
  /\ VolumeIdle
  /\ unmount_call = "none"
  /\ AppIdle
  /\ perdev_minors \in {Readable(<<"8">>), Unreadable}

RaceFrame == UNCHANGED <<listening, install_vars, volume_vars, util_vars, app_vars>>

\* the notifications ev, sent by operation n of thread t
Sent(t, n, ev) == [i \in 1..Len(ev) |-> [by |-> t, n |-> n, code |-> ev[i].code]]

\* the log goes on, or starts anew when the other thread is idle
LogFrom(other) == IF thread[other].pc = "idle" THEN <<>> ELSE mlast.log

\* the manager's fields become those of m and the watcher is told ev
RaceDone(m, t, ev) ==
  /\ mDisks' = m.mDisks
  /\ mInternalEmulated' = m.mInternalEmulated
  /\ mlast' = [mlast EXCEPT !.log = @ \o Sent(t, thread[t].n, ev)]
  /\ UNCHANGED <<mDiskSources, mWatcher>>

\* the device of the disk that owns the volume
Owner(m, id) == m.mDisks[VolumeManager_findVolume(m, id).disk].mDevice

\* the main thread calls volumeMount(id) or volumeUnmount(id) for a volume
\* getVolumeInfo has listed
RaceCall ==
  /\ thread.main.pc = "idle"
  /\ thread.main.n < MaxRaceCalls
  /\ \E op \in {"volumeMount", "volumeUnmount"}, id \in ListedVolumes(Manager) :
       thread' = [thread EXCEPT !.main =
                    [MainIdle EXCEPT !.pc = "lock", !.op = op, !.id = id,
                                     !.owner = Owner(Manager, id),
                                     !.n = thread.main.n + 1]]
  /\ mlast' = [mlast EXCEPT !.log = LogFrom("listener")]
  /\ UNCHANGED <<mDisks, mDiskSources, mInternalEmulated, mWatcher, mLock>>
  /\ RaceFrame

\* the listener thread calls handleBlockEvent for an event of a managed disk;
\* one disk is plugged in at a time
RaceEvent ==
  /\ thread.listener.pc = "idle"
  /\ thread.listener.n < MaxRaceCalls
  /\ \E evt \in RaceEvents, scan \in Scans :
       /\ evt.action = "kAdd" => mDisks = <<>>
       /\ thread' = [thread EXCEPT !.listener =
                       [pc |-> "lock", evt |-> evt, scan |-> Scanned(scan),
                        n |-> thread.listener.n + 1]]
  /\ mlast' = [mlast EXCEPT !.log = LogFrom("main")]
  /\ UNCHANGED <<mDisks, mDiskSources, mInternalEmulated, mWatcher, mLock>>
  /\ RaceFrame

RaceLock ==
  /\ \E t \in Threads :
       /\ thread[t].pc = "lock"
       /\ MutexFree(mLock)
       /\ mLock' = t
       /\ thread' = [thread EXCEPT ![t].pc = IF t = "main" THEN "find" ELSE "destroy"]
  /\ UNCHANGED <<manager_vars>>
  /\ RaceFrame

\* auto vol = findVolume(id); if (!vol) return false
RaceFind ==
  /\ thread.main.pc = "find"
  /\ thread' = [thread EXCEPT
       !.main.at = VolumeManager_findVolume(Manager, thread.main.id),
       !.main.pc = IF VolumeManager_findVolume(Manager, thread.main.id).found
                   THEN "operate" ELSE "unlock"]
  /\ UNCHANGED <<manager_vars, mLock>>
  /\ RaceFrame

\* vol->mount() or vol->unmount(detach) and the value returned
RaceOperated(o) ==
  /\ RaceDone(o.m, "main", o.ev)
  /\ thread' = [thread EXCEPT !.main.res = o.res, !.main.pc = "unlock"]

\* the call through the pointer; through a pointer to a destroyed volume it
\* may do and return anything, of which only the return value is kept
RaceOperate ==
  /\ thread.main.pc = "operate"
  /\ IF thread.main.stale
     THEN /\ \E res \in BOOLEAN :
               thread' = [thread EXCEPT !.main.res = res, !.main.uaf = TRUE,
                                        !.main.pc = "unlock"]
          /\ UNCHANGED manager_vars
     ELSE \E mounted \in {"OK", "-EIO"}, detach \in BOOLEAN :
            RaceOperated(IF thread.main.op = "volumeMount"
                         THEN MountAt(Manager, thread.main.at, mounted)
                         ELSE UnmountAt(Manager, thread.main.at, detach))
  /\ UNCHANGED mLock
  /\ RaceFrame

\* the event gets as far as destroyAllVolumes on the disk: always in
\* destroy(), in readPartitions() past its early returns
Destroys(d, evt, scan) ==
  /\ d.mDevice = makedev(evt.major, evt.minor)
  /\ \/ evt.action = "kRemove"
     \/ /\ evt.action = "kChange"
        /\ Int8(Disk_getMaxMinors(d, scan.sysfs)) >= 0
        /\ ~d.mSkipChange

\* the loop over mDisks up to and including destroyAllVolumes
RECURSIVE DestroyFirst(_, _, _)
DestroyFirst(disks, evt, scan) ==
  IF disks = <<>> THEN NoDisks
  ELSE KeepDisk(IF Destroys(Head(disks), evt, scan)
                THEN Disk_destroyAllVolumes(
                       IF evt.action = "kChange"
                       THEN Disk_readMetadata(DiskContext(Head(disks)))
                       ELSE DiskContext(Head(disks)))
                ELSE DiskContext(Head(disks)),
                DestroyFirst(Tail(disks), evt, scan))

\* the main thread's pointer is to a volume of a disk the event destroys
\* the volumes of
PointsInto(evt, scan) ==
  /\ thread.main.pc = "operate"
  /\ thread.main.at.disk > 0
  /\ Destroys(mDisks[thread.main.at.disk], evt, scan)

RaceDestroy ==
  /\ thread.listener.pc = "destroy"
  /\ RaceDone(Looped(Manager, DestroyFirst(mDisks, thread.listener.evt,
                                           thread.listener.scan)).m,
              "listener",
              DestroyFirst(mDisks, thread.listener.evt, thread.listener.scan).ev)
  /\ thread' = [thread EXCEPT
       !.listener.pc = "finish",
       !.main.stale = @ \/ PointsInto(thread.listener.evt, thread.listener.scan)]
  /\ UNCHANGED mLock
  /\ RaceFrame

\* the rest of the loop over mDisks, for a disk whose volumes are destroyed:
\* the scan of readPartitions, or the rest of destroy() and the erasure
RECURSIVE FinishEach(_, _, _)
FinishEach(disks, evt, scan) ==
  IF disks = <<>> THEN NoDisks
  ELSE IF Head(disks).mDevice # makedev(evt.major, evt.minor)
  THEN KeepDisk(DiskContext(Head(disks)), FinishEach(Tail(disks), evt, scan))
  ELSE IF evt.action = "kRemove"
  THEN EraseDisk(Disk_destroy(DiskContext(Head(disks))), FinishEach(Tail(disks), evt, scan))
  ELSE KeepDisk(IF Destroys(Head(disks), evt, scan)
                THEN Disk_readPartitions(DiskContext(Head(disks)), scan)
                ELSE Disk_readPartitions(Disk_readMetadata(DiskContext(Head(disks))),
                                         scan),
                FinishEach(Tail(disks), evt, scan))

EventFinished(m, evt, scan) ==
  IF evt.action = "kAdd" THEN AddDisk(m, evt, scan)
  ELSE Looped(m, FinishEach(m.mDisks, evt, scan))

\* where the main thread's pointer is after the list has changed
Repointed(m) ==
  IF thread.main.pc = "operate" /\ ~thread.main.stale
  THEN VolumeManager_findVolume(m, thread.main.id)
  ELSE thread.main.at

RaceFinish ==
  /\ thread.listener.pc = "finish"
  /\ RaceDone(EventFinished(Manager, thread.listener.evt, thread.listener.scan).m,
              "listener",
              EventFinished(Manager, thread.listener.evt, thread.listener.scan).ev)
  /\ thread' = [thread EXCEPT
       !.listener.pc = "unlock",
       !.main.at = Repointed(EventFinished(Manager, thread.listener.evt,
                                           thread.listener.scan).m),
       !.main.since =
          IF /\ thread.main.pc = "lock"
             /\ thread.main.owner = makedev(thread.listener.evt.major,
                                            thread.listener.evt.minor)
          THEN thread.listener.evt.action ELSE @]
  /\ UNCHANGED mLock
  /\ RaceFrame

\* the lock_guard's destructor and the return
RaceUnlock ==
  /\ \E t \in Threads :
       /\ thread[t].pc = "unlock"
       /\ mLock' = "free"
       /\ thread' = [thread EXCEPT ![t].pc = "idle"]
  /\ UNCHANGED <<manager_vars>>
  /\ RaceFrame

NextRace ==
  \/ RaceCall
  \/ RaceEvent
  \/ RaceLock
  \/ RaceFind
  \/ RaceOperate
  \/ RaceDestroy
  \/ RaceFinish
  \/ RaceUnlock

SpecRace == InitRace /\ [][NextRace]_vars

(***************************************************************************)
(* install/install.cpp: CheckAbSpecificMetadata on its own.  The package   *)
(* is an A/B package for this device; its pre-build fingerprint, its       *)
(* post-timestamp (absent, not a number, older than, equal to and newer    *)
(* than the build date) and its ota-downgrade value vary.                  *)
(***************************************************************************)
CheckedMetadata ==
  [ota_type : {"AB"}, pre_device : {<<"dev">>}, serialno : {<<>>},
   pre_build_incremental : {""}, pre_build : {<<>>, <<"fp1">>, <<"fp0">>},
   post_timestamp : {"", "x", "0", "1", "2"}, ota_downgrade : {"", "yes", "no"},
   post_build : {<<>>}, post_build_incremental : {""}]

InitMetadata ==
  /\ device = ProtocolDevice
  /\ ab_package_installed = FALSE
  /\ logical_partitions_auto_mapped = FALSE
  /\ dm_mapped = FALSE
  /\ prev = NoCall
  /\ pc = "metadata"
  /\ package \in [null : {FALSE}, has_metadata : {TRUE}, metadata : CheckedMetadata,
                  spl_older : {FALSE}]
  /\ should_wipe_cache = FALSE
  /\ caller_wipe_cache = FALSE
  /\ retry_count = 0
  /\ text_visible \in BOOLEAN
  /\ updater_wipe_cache = FALSE
  /\ retry_update = FALSE
  /\ log_buffer = <<>>
  /\ from_child = <<>>
  /\ child_output = <<>>
  /\ child_status = "none"
  /\ tub_result = "none"
  /\ tub_exit = "none"
  /\ result = "unset"
  /\ install_log = <<>>
  /\ trace = <<>>
  /\ VolumeIdle
  /\ ManagerIdle
  /\ LockIdle
  /\ UtilIdle
  /\ AppIdle

\* ask_to_continue_downgrade is reached: the flag is set, the text UI is
\* visible and no earlier check has returned false
AsksToContinue(md, dev, tv) ==
  /\ tv
  /\ CheckAbSpecificMetadata(md, dev, TRUE, TRUE)
  /\ ~CheckAbSpecificMetadata(md, dev, FALSE, FALSE)

\* CheckAbSpecificMetadata(metadata, ui); result is what it returns
MetadataCheck ==
  /\ pc = "metadata"
  /\ \E answer \in BOOLEAN :
       /\ result' = IF CheckAbSpecificMetadata(Metadata(package), device, text_visible, answer)
                    THEN "true" ELSE "false"
       /\ trace' = IF AsksToContinue(Metadata(package), device, text_visible)
                   THEN <<"ask_to_continue_downgrade", IF answer THEN "yes" ELSE "no">>
                   ELSE <<>>
  /\ pc' = "checked"
  /\ UNCHANGED <<statics, caller_wipe_cache, package, should_wipe_cache, retry_count,
                 text_visible, updater_wipe_cache, retry_update, log_buffer, from_child,
                 child_output, child_status, tub_result, tub_exit, install_log>>
  /\ UNCHANGED volmgr_vars

NextMetadata == MetadataCheck

SpecMetadata == InitMetadata /\ [][NextMetadata]_vars

(***************************************************************************)
(* install/install.cpp: the temperature logger.  TryUpdateBinary starts    *)
(* the thread before it reads the child's output and stops it after        *)
(* waitpid: it stores true to logger_finished, notifies the condition       *)
(* variable finish_log_temperature and joins.  The thread tests the flag,  *)
(* waits on the condition variable for 20 s under a mutex of its own, and  *)
(* samples when the wait timed out.  temperature_logger holds where the    *)
(* parent and the thread are, the flag, whether the notification has been  *)
(* sent, how the last wait ended, and late: a wait has timed out after the *)
(* notification was sent.                                                  *)
(***************************************************************************)
MaxSamples == 3

Temperatures == 0..2

InitSampler ==
  /\ temperature_logger \in
       [parent : {"waitpid"}, sampler : {"check"}, logger_finished : {FALSE},
        notified : {FALSE}, wake : {"none"}, late : {FALSE}, samples : {0},
        max_temperature : Temperatures]
  /\ fuse_call = "none"
  /\ recovery_ui = "none"
  /\ apply_call = "none"
  /\ device = ProtocolDevice
  /\ ab_package_installed = FALSE
  /\ logical_partitions_auto_mapped = FALSE
  /\ dm_mapped = FALSE
  /\ prev = NoCall
  /\ CallLocalsIdle
  /\ VolumeIdle
  /\ ManagerIdle
  /\ LockIdle
  /\ UtilIdle

SamplerFrame ==
  UNCHANGED <<fuse_call, recovery_ui, apply_call, install_vars, volume_vars,
              manager_vars, lock_vars, util_vars>>

\* the wait never times out
TimesOut_Never(tl) == FALSE

\* wait_for(lck, 20s) returns timeout when 20 s have passed without a
\* notification; samples bounds the sampling while the child runs
TimesOut(tl) == tl.logger_finished \/ tl.samples < MaxSamples

\* waitpid(pid, &status, 0) returns: the child has exited
TL_ChildExit ==
  /\ temperature_logger.parent = "waitpid"
  /\ temperature_logger' = [temperature_logger EXCEPT !.parent = "store"]
  /\ SamplerFrame

\* logger_finished.store(true)
TL_Store ==
  /\ temperature_logger.parent = "store"
  /\ temperature_logger' =
       [temperature_logger EXCEPT !.logger_finished = TRUE, !.parent = "notify"]
  /\ SamplerFrame

\* finish_log_temperature.notify_one(): wakes the thread if it is waiting
TL_Notify ==
  /\ temperature_logger.parent = "notify"
  /\ temperature_logger' =
       [temperature_logger EXCEPT
          !.notified = TRUE,
          !.parent = "join",
          !.sampler = IF @ = "wait" THEN "woken" ELSE @]
  /\ SamplerFrame

\* temperature_logger.join() returns when the thread has ended
TL_Join ==
  /\ temperature_logger.parent = "join"
  /\ temperature_logger.sampler = "exited"
  /\ temperature_logger' = [temperature_logger EXCEPT !.parent = "returned"]
  /\ SamplerFrame

\* while (!logger_finished.load() && ...: the load
TL_Check ==
  /\ temperature_logger.sampler = "check"
  /\ temperature_logger' =
       [temperature_logger EXCEPT
          !.sampler = IF temperature_logger.logger_finished THEN "exited" ELSE "enter"]
  /\ SamplerFrame

\* the call of wait_for: the thread starts to wait
TL_Wait ==
  /\ temperature_logger.sampler = "enter"
  /\ temperature_logger' = [temperature_logger EXCEPT !.sampler = "wait"]
  /\ SamplerFrame

\* wait_for returns cv_status::timeout
TL_Timeout ==
  /\ temperature_logger.sampler = "wait"
  /\ TimesOut(temperature_logger)
  /\ temperature_logger' =
       [temperature_logger EXCEPT !.sampler = "sample", !.wake = "timeout",
                                  !.late = @ \/ temperature_logger.notified]
  /\ SamplerFrame

\* wait_for returns cv_status::no_timeout after a notification: the loop ends
TL_Woken ==
  /\ temperature_logger.sampler = "woken"
  /\ temperature_logger' =
       [temperature_logger EXCEPT !.sampler = "exited", !.wake = "notified"]
  /\ SamplerFrame

\* wait_for returns cv_status::no_timeout without a notification, as a
\* condition variable may: the loop ends
TL_Spurious ==
  /\ temperature_logger.sampler = "wait"
  /\ temperature_logger' =
       [temperature_logger EXCEPT !.sampler = "exited", !.wake = "spurious"]
  /\ SamplerFrame

\* *max_temperature = std::max(*max_temperature, GetMaxValueFromThermalZone())
TL_Sample ==
  /\ temperature_logger.sampler = "sample"
  /\ \E t \in Temperatures :
       temperature_logger' =
         [temperature_logger EXCEPT
            !.max_temperature = Max({@, t}),
            !.samples = IF @ < MaxSamples THEN @ + 1 ELSE @,
            !.sampler = "check"]
  /\ SamplerFrame

ParentSteps == TL_ChildExit \/ TL_Store \/ TL_Notify \/ TL_Join

\* the steps the thread takes if it is given the time
SamplerSteps == TL_Check \/ TL_Wait \/ TL_Timeout \/ TL_Woken \/ TL_Sample

NextSampler ==
  \/ TL_ChildExit
  \/ TL_Store
  \/ TL_Notify
  \/ TL_Join
  \/ TL_Check
  \/ TL_Wait
  \/ TL_Timeout
  \/ TL_Woken
  \/ TL_Spurious
  \/ TL_Sample

SpecSampler == InitSampler /\ [][NextSampler]_vars

\* both threads are scheduled, and 20 s pass
SpecSamplerLive ==
  /\ InitSampler
  /\ [][NextSampler]_vars
  /\ WF_vars(ParentSteps)
  /\ WF_vars(SamplerSteps)

(***************************************************************************)
(* install/fuse_install.cpp: InstallWithFuseFromPath.  fuse_call is the    *)
(* call: the statement the parent is at (pc), the loop variable i, the     *)
(* locals result and waited, the child (running until its fuse is          *)
(* mounted, ready while FUSE_SIDELOAD_HOST_PATHNAME exists, exited as a    *)
(* zombie, reaped, or nofork when fork failed), and what the call has      *)
(* done: the stat calls of the loop (polls), the sleeps, whether the       *)
(* pathname was seen, whether InstallPackage was called, whether the child *)
(* was sent SIGKILL, whether the exit pathname was touched (told).         *)
(***************************************************************************)
SDCARD_INSTALL_TIMEOUT == 10

InstallResults == {"INSTALL_SUCCESS", "INSTALL_ERROR", "INSTALL_CORRUPT"}

InitFuse ==
  /\ fuse_call = [pc |-> "fork", i |-> 0, result |-> "INSTALL_ERROR", waited |-> FALSE,
                  child |-> "none", polls |-> 0, sleeps |-> 0, seen |-> FALSE,
                  installed |-> FALSE, killed |-> FALSE, told |-> FALSE]
  /\ temperature_logger = "none"
  /\ recovery_ui = "none"
  /\ apply_call = "none"
  /\ device = ProtocolDevice
  /\ ab_package_installed = FALSE
  /\ logical_partitions_auto_mapped = FALSE
  /\ dm_mapped = FALSE
  /\ prev = NoCall
  /\ CallLocalsIdle
  /\ VolumeIdle
  /\ ManagerIdle
  /\ LockIdle
  /\ UtilIdle

FuseFrame ==
  UNCHANGED <<temperature_logger, recovery_ui, apply_call, install_vars, volume_vars,
              manager_vars, lock_vars, util_vars>>

\* the loop has no last iteration
LastPoll_Never(i) == FALSE

\* i < SDCARD_INSTALL_TIMEOUT - 1 is false
LastPoll(i) == i >= SDCARD_INSTALL_TIMEOUT - 1

\* child = fork()
FI_Fork ==
  /\ fuse_call.pc = "fork"
  /\ \E forked \in BOOLEAN :
       fuse_call' = [fuse_call EXCEPT !.pc = "waitpid",
                                      !.child = IF forked THEN "running" ELSE "nofork"]
  /\ FuseFrame

\* the child's fuse is mounted: the host pathname exists
FI_ChildReady ==
  /\ fuse_call.child = "running"
  /\ fuse_call' = [fuse_call EXCEPT !.child = "ready"]
  /\ FuseFrame

\* the child exits on its own: StartInstallPackageFuse failed or the fuse
\* loop ended
FI_ChildExit ==
  /\ fuse_call.child \in {"running", "ready"}
  /\ ~fuse_call.told
  /\ fuse_call' = [fuse_call EXCEPT !.child = "exited"]
  /\ FuseFrame

\* the fuse loop ends after the stat of the exit pathname
FI_ChildShutdown ==
  /\ fuse_call.child = "ready"
  /\ fuse_call.told
  /\ fuse_call' = [fuse_call EXCEPT !.child = "exited"]
  /\ FuseFrame

\* waitpid(child, &status, WNOHANG): -1 when there is no child to wait for,
\* the pid of a child that has exited, 0 while it runs
FI_Waitpid ==
  /\ fuse_call.pc = "waitpid"
  /\ fuse_call.i < SDCARD_INSTALL_TIMEOUT
  /\ fuse_call' =
       IF fuse_call.child \in {"nofork", "reaped"}
       THEN [fuse_call EXCEPT !.result = "INSTALL_ERROR", !.waited = TRUE, !.pc = "after"]
       ELSE [fuse_call EXCEPT !.child = IF @ = "exited" THEN "reaped" ELSE @,
                              !.pc = "stat"]
  /\ FuseFrame

\* stat(FUSE_SIDELOAD_HOST_PATHNAME, &sb) finds the pathname
FI_StatFound ==
  /\ fuse_call.pc = "stat"
  /\ fuse_call.child = "ready"
  /\ fuse_call' = [fuse_call EXCEPT !.polls = @ + 1, !.seen = TRUE, !.pc = "install"]
  /\ FuseFrame

\* stat fails: sleep(1) and continue, or the timeout branch with its kill
FI_StatFailed ==
  /\ fuse_call.pc = "stat"
  /\ \E errno \in IF fuse_call.child = "ready" THEN {"EIO"} ELSE {"ENOENT", "EIO"} :
       fuse_call' =
         IF errno = "ENOENT" /\ ~LastPoll(fuse_call.i)
         THEN [fuse_call EXCEPT !.polls = @ + 1, !.sleeps = @ + 1, !.i = @ + 1,
                                !.pc = "waitpid"]
         ELSE [fuse_call EXCEPT !.polls = @ + 1, !.result = "INSTALL_ERROR",
                                !.killed = TRUE,
                                !.child = IF @ \in {"running", "ready"} THEN "exited" ELSE @,
                                !.pc = "after"]
  /\ FuseFrame

\* result = InstallPackage(package.get(), FUSE_SIDELOAD_HOST_PATHNAME, ...)
FI_Install ==
  /\ fuse_call.pc = "install"
  /\ \E r \in InstallResults :
       fuse_call' = [fuse_call EXCEPT !.installed = TRUE, !.result = r, !.pc = "after"]
  /\ FuseFrame

\* if (!waited) stat(FUSE_SIDELOAD_HOST_EXIT_PATHNAME, &sb)
FI_ExitStat ==
  /\ fuse_call.pc = "after"
  /\ fuse_call' = IF fuse_call.waited THEN [fuse_call EXCEPT !.pc = "return"]
                  ELSE [fuse_call EXCEPT !.told = TRUE, !.pc = "wait"]
  /\ FuseFrame

\* waitpid(child, &status, 0) returns when the child has exited, or at once
\* when there is no child
FI_Wait ==
  /\ fuse_call.pc = "wait"
  /\ fuse_call.child \in {"exited", "reaped", "nofork"}
  /\ fuse_call' = [fuse_call EXCEPT !.child = IF @ = "exited" THEN "reaped" ELSE @,
                                    !.pc = "return"]
  /\ FuseFrame

\* return result
FI_Return ==
  /\ fuse_call.pc = "return"
  /\ fuse_call' = [fuse_call EXCEPT !.pc = "returned"]
  /\ FuseFrame

FuseParentSteps ==
  \/ FI_Fork
  \/ FI_Waitpid
  \/ FI_StatFound
  \/ FI_StatFailed
  \/ FI_Install
  \/ FI_ExitStat
  \/ FI_Wait
  \/ FI_Return

NextFuse ==
  \/ FI_Fork
  \/ FI_ChildReady
  \/ FI_ChildExit
  \/ FI_ChildShutdown
  \/ FI_Waitpid
  \/ FI_StatFound
  \/ FI_StatFailed
  \/ FI_Install
  \/ FI_ExitStat
  \/ FI_Wait
  \/ FI_Return

SpecFuse == InitFuse /\ [][NextFuse]_vars

\* the parent runs, InstallPackage returns, and a child whose fuse was told
\* to shut down exits
SpecFuseLive ==
  /\ InitFuse
  /\ [][NextFuse]_vars
  /\ WF_vars(FuseParentSteps)
  /\ WF_vars(FI_ChildShutdown)

(***************************************************************************)
(* ui.cpp, ui.h, volclient.cpp: the main thread in WaitInputEvent and in   *)
(* its calls of the VolumeManager, the input thread in ProcessKey, and the *)
(* hotplug listener in handleBlockEvent with the watcher's callback.       *)
(* recovery_ui holds volumes_changed_, event_queue_len, the holders of     *)
(* event_queue_mutex and of the manager's mLock, the statement each thread *)
(* is at, the local ret of VolumesChanged, what WaitInputEvent returned    *)
(* last, the numbers of keys, manager calls and block events so far, and   *)
(* pending: a change was flagged and no KEY_REFRESH has been returned      *)
(* since.                                                                  *)
(***************************************************************************)
MaxKeys == 2

MaxUiCalls == 1

MaxUiEvents == 2

InitUI ==
  /\ recovery_ui = [volumes_changed_ |-> FALSE, event_queue_len |-> 0,
                    event_queue_mutex |-> "free", mLock |-> "free",
                    main |-> "idle", ret |-> FALSE, returned |-> "none",
                    input |-> "idle", listener |-> "idle",
                    keys |-> 0, calls |-> 0, events |-> 0, pending |-> FALSE]
  /\ temperature_logger = "none"
  /\ fuse_call = "none"
  /\ apply_call = "none"
  /\ device = ProtocolDevice
  /\ ab_package_installed = FALSE
  /\ logical_partitions_auto_mapped = FALSE
  /\ dm_mapped = FALSE
  /\ prev = NoCall
  /\ CallLocalsIdle
  /\ VolumeIdle
  /\ ManagerIdle
  /\ LockIdle
  /\ UtilIdle

UIFrame ==
  UNCHANGED <<temperature_logger, fuse_call, apply_call, install_vars, volume_vars,
              manager_vars, lock_vars, util_vars>>

\* ProcessKey goes on with event_queue_mutex still held
ProcessKey_unlock_Kept(t) == t

\* pthread_mutex_unlock(&event_queue_mutex) of ProcessKey
ProcessKey_unlock(t) == "free"

\* the main thread calls WaitInputEvent
M_CallWait ==
  /\ recovery_ui.main = "idle"
  /\ recovery_ui' = [recovery_ui EXCEPT !.main = "lock_mutex", !.returned = "none"]
  /\ UIFrame

\* pthread_mutex_lock(&event_queue_mutex)
M_Lock ==
  /\ recovery_ui.main = "lock_mutex"
  /\ recovery_ui.event_queue_mutex = "free"
  /\ recovery_ui' = [recovery_ui EXCEPT !.event_queue_mutex = "main", !.main = "locked"]
  /\ UIFrame

\* pthread_cond_timedwait releases the mutex and waits
M_Wait ==
  /\ recovery_ui.main = "locked"
  /\ recovery_ui.event_queue_len = 0
  /\ recovery_ui' = [recovery_ui EXCEPT !.event_queue_mutex = "free", !.main = "wait"]
  /\ UIFrame

\* the wait ends by the signal of EnqueueKey
M_Signalled ==
  /\ recovery_ui.main = "wait"
  /\ recovery_ui.event_queue_len > 0
  /\ recovery_ui.event_queue_mutex = "free"
  /\ recovery_ui' = [recovery_ui EXCEPT !.event_queue_mutex = "main", !.main = "locked"]
  /\ UIFrame

\* the wait ends with ETIMEDOUT after its second
M_Timeout ==
  /\ recovery_ui.main = "wait"
  /\ recovery_ui.event_queue_mutex = "free"
  /\ recovery_ui' = [recovery_ui EXCEPT !.event_queue_mutex = "main", !.main = "timedout"]
  /\ UIFrame

\* VolumesChanged: bool ret = volumes_changed_
M_ReadFlag ==
  /\ recovery_ui.main = "timedout"
  /\ recovery_ui' = [recovery_ui EXCEPT !.ret = recovery_ui.volumes_changed_,
                                        !.main = "clear"]
  /\ UIFrame

\* VolumesChanged: volumes_changed_ = false; return ret; then the return of
\* KEY_REFRESH, or the rest of the loop body
M_ClearFlag ==
  /\ recovery_ui.main = "clear"
  /\ \/ /\ recovery_ui.ret
        /\ recovery_ui' = [recovery_ui EXCEPT !.volumes_changed_ = FALSE,
                                              !.event_queue_mutex = "free",
                                              !.main = "idle",
                                              !.returned = "KEY_REFRESH",
                                              !.pending = FALSE]
     \/ /\ ~recovery_ui.ret
        /\ \E expired \in BOOLEAN :
             recovery_ui' = [recovery_ui EXCEPT !.volumes_changed_ = FALSE,
                                                !.main = IF expired THEN "expired"
                                                         ELSE "locked"]
  /\ UIFrame

\* the do-while: again while the cable is plugged in and the queue is empty,
\* else the return of the queue's head or of an empty event
M_Expired ==
  /\ recovery_ui.main = "expired"
  /\ \E usb \in BOOLEAN :
       recovery_ui' =
         IF usb /\ recovery_ui.event_queue_len = 0
         THEN [recovery_ui EXCEPT !.main = "locked"]
         ELSE [recovery_ui EXCEPT !.event_queue_len = IF @ > 0 THEN @ - 1 ELSE 0,
                                  !.event_queue_mutex = "free",
                                  !.main = "idle",
                                  !.returned = IF recovery_ui.event_queue_len > 0
                                               THEN "key" ELSE "timeout"]
  /\ UIFrame

\* the queue is not empty: the return of its head
M_TakeKey ==
  /\ recovery_ui.main = "locked"
  /\ recovery_ui.event_queue_len > 0
  /\ recovery_ui' = [recovery_ui EXCEPT !.event_queue_len = @ - 1,
                                        !.event_queue_mutex = "free",
                                        !.main = "idle",
                                        !.returned = "key"]
  /\ UIFrame

\* the main thread calls volumeMount or volumeUnmount
M_CallManager ==
  /\ recovery_ui.main = "idle"
  /\ recovery_ui.calls < MaxUiCalls
  /\ recovery_ui' = [recovery_ui EXCEPT !.main = "lock_manager", !.calls = @ + 1]
  /\ UIFrame

M_ManagerLock ==
  /\ recovery_ui.main = "lock_manager"
  /\ recovery_ui.mLock = "free"
  /\ recovery_ui' = [recovery_ui EXCEPT !.mLock = "main", !.main = "manager"]
  /\ UIFrame

M_ManagerUnlock ==
  /\ recovery_ui.main = "manager"
  /\ recovery_ui' = [recovery_ui EXCEPT !.mLock = "free", !.main = "idle"]
  /\ UIFrame

\* the input thread calls ProcessKey
I_Key ==
  /\ recovery_ui.input = "idle"
  /\ recovery_ui.keys < MaxKeys
  /\ recovery_ui' = [recovery_ui EXCEPT !.input = "lock_mutex", !.keys = @ + 1]
  /\ UIFrame

I_Lock ==
  /\ recovery_ui.input = "lock_mutex"
  /\ recovery_ui.event_queue_mutex = "free"
  /\ recovery_ui' = [recovery_ui EXCEPT !.event_queue_mutex = "input", !.input = "key"]
  /\ UIFrame

\* the unlock, then what CheckKey says of a registered key
I_Unlock ==
  /\ recovery_ui.input = "key"
  /\ \E action \in {"IGNORE", "REBOOT", "ENQUEUE"} :
       recovery_ui' = [recovery_ui EXCEPT
                         !.event_queue_mutex = ProcessKey_unlock("input"),
                         !.input = CASE action = "REBOOT" -> "reboot"
                                     [] action = "ENQUEUE" -> "enqueue"
                                     [] OTHER -> "idle"]
  /\ UIFrame

\* VolumeManager::Instance()->unmountAll() takes the manager's lock
I_UnmountAll ==
  /\ recovery_ui.input = "reboot"
  /\ recovery_ui.mLock = "free"
  /\ recovery_ui' = [recovery_ui EXCEPT !.mLock = "input", !.input = "unmounting"]
  /\ UIFrame

\* unmountAll returns; reboot and pause
I_Reboot ==
  /\ recovery_ui.input = "unmounting"
  /\ recovery_ui' = [recovery_ui EXCEPT !.mLock = "free", !.input = "paused"]
  /\ UIFrame

\* EnqueueKey: lock, append, signal, unlock
I_Enqueue ==
  /\ recovery_ui.input = "enqueue"
  /\ recovery_ui.event_queue_mutex = "free"
  /\ recovery_ui' = [recovery_ui EXCEPT !.event_queue_len = @ + 1, !.input = "idle"]
  /\ UIFrame

\* the listener receives a block event
L_Event ==
  /\ recovery_ui.listener = "idle"
  /\ recovery_ui.events < MaxUiEvents
  /\ recovery_ui' = [recovery_ui EXCEPT !.listener = "lock_manager", !.events = @ + 1]
  /\ UIFrame

\* handleBlockEvent takes the manager's lock
L_Lock ==
  /\ recovery_ui.listener = "lock_manager"
  /\ recovery_ui.mLock = "free"
  /\ recovery_ui' = [recovery_ui EXCEPT !.mLock = "listener", !.listener = "handling"]
  /\ UIFrame

\* notifyEvent(VolumeDestroyed or DiskScanned) enters the watcher
L_Notify ==
  /\ recovery_ui.listener = "handling"
  /\ recovery_ui' = [recovery_ui EXCEPT !.listener = "callback"]
  /\ UIFrame

\* handleEvent, handleVolumeChanged, onVolumeChanged: volumes_changed_ = 1
L_Callback ==
  /\ recovery_ui.listener = "callback"
  /\ recovery_ui' = [recovery_ui EXCEPT !.volumes_changed_ = TRUE, !.pending = TRUE,
                                        !.listener = "notified"]
  /\ UIFrame

\* handleBlockEvent returns
L_Unlock ==
  /\ recovery_ui.listener \in {"handling", "notified"}
  /\ recovery_ui' = [recovery_ui EXCEPT !.mLock = "free", !.listener = "idle"]
  /\ UIFrame

MainSteps ==
  \/ M_CallWait
  \/ M_Lock
  \/ M_Wait
  \/ M_Signalled
  \/ M_Timeout
  \/ M_ReadFlag
  \/ M_ClearFlag
  \/ M_Expired
  \/ M_TakeKey
  \/ M_CallManager
  \/ M_ManagerLock
  \/ M_ManagerUnlock

InputSteps ==
  \/ I_Lock
  \/ I_Unlock
  \/ I_UnmountAll
  \/ I_Reboot
  \/ I_Enqueue

ListenerSteps ==
  \/ L_Lock
  \/ L_Notify
  \/ L_Callback
  \/ L_Unlock

NextUI ==
  \/ M_CallWait
  \/ M_Lock
  \/ M_Wait
  \/ M_Signalled
  \/ M_Timeout
  \/ M_ReadFlag
  \/ M_ClearFlag
  \/ M_Expired
  \/ M_TakeKey
  \/ M_CallManager
  \/ M_ManagerLock
  \/ M_ManagerUnlock
  \/ I_Key
  \/ I_Lock
  \/ I_Unlock
  \/ I_UnmountAll
  \/ I_Reboot
  \/ I_Enqueue
  \/ L_Event
  \/ L_Lock
  \/ L_Notify
  \/ L_Callback
  \/ L_Unlock

SpecUI == InitUI /\ [][NextUI]_vars

\* every thread that can run does; keys and block events come or do not
SpecUILive ==
  /\ InitUI
  /\ [][NextUI]_vars
  /\ WF_vars(MainSteps)
  /\ WF_vars(InputSteps)
  /\ WF_vars(ListenerSteps)

(***************************************************************************)
(* install/fuse_install.cpp: ApplyFromStorage on a volume the manager      *)
(* listed, while block events go on between its statements.  apply_call is *)
(* the call: the statement it is at, vi.mId, whether volumeMount returned  *)
(* true, whether it browsed and installed, the volumeUnmount calls it      *)
(* made, its result, and the number of calls so far.                       *)
(***************************************************************************)
MaxApplyCalls == 2

ApplyIdle ==
  [pc |-> "idle", id |-> "", mounted |-> FALSE, browsed |-> FALSE, installed |-> FALSE,
   unmounts |-> 0, result |-> "none", n |-> 0]

InitStorage ==
  /\ ManagerIdle
  /\ apply_call = ApplyIdle
  /\ temperature_logger = "none"
  /\ fuse_call = "none"
  /\ recovery_ui = "none"
  /\ device = ProtocolDevice
  /\ ab_package_installed = FALSE
  /\ logical_partitions_auto_mapped = FALSE
  /\ dm_mapped = FALSE
  /\ prev = NoCall
  /\ CallLocalsIdle
  /\ VolumeIdle
  /\ LockIdle
  /\ unmount_call = "none"
  /\ perdev_minors \in {Readable(<<"8">>), Unreadable}

\* the manager's call returns o and the caller goes on as call
Applied(op, o, call) ==
  /\ mDisks' = o.m.mDisks
  /\ mDiskSources' = o.m.mDiskSources
  /\ mInternalEmulated' = o.m.mInternalEmulated
  /\ mWatcher' = o.m.mWatcher
  /\ mlast' = [op |-> op, arg |-> apply_call.id, ev |-> o.ev, graves |-> o.graves,
               res |-> o.res]
  /\ apply_call' = call
  /\ UNCHANGED <<temperature_logger, fuse_call, recovery_ui, install_vars, volume_vars,
                 lock_vars, util_vars>>

ApplyFrame ==
  UNCHANGED <<temperature_logger, fuse_call, recovery_ui, install_vars, volume_vars,
              manager_vars, lock_vars, util_vars>>

\* an empty path returns without the volumeUnmount
AfterBrowse_NoUnmount(path) == IF path = "" THEN "returned" ELSE "install"

\* if (path.empty()) { volumeUnmount; return INSTALL_NONE; }, else the install
AfterBrowse(path) == IF path = "" THEN "unmount" ELSE "install"

\* the menu calls ApplyFromStorage(device, vi) for a volume of getVolumeInfo
AS_Call ==
  /\ mWatcher # nullptr
  /\ apply_call.pc \in {"idle", "returned"}
  /\ apply_call.n < MaxApplyCalls
  /\ \E id \in ListedVolumes(Manager) :
       apply_call' = [ApplyIdle EXCEPT !.pc = "mount", !.id = id, !.n = apply_call.n + 1]
  /\ ApplyFrame

\* the listener handles a block event of a disk between two statements of
\* the main thread
AS_BlockEvent ==
  /\ mWatcher # nullptr
  /\ \E evt \in { e \in BlockEvents : e.devtype = "disk" /\ e.action # "kUnknown" },
        scan \in Scans :
       /\ evt.action = "kAdd" => Len(mDisks) < MaxDisks
       /\ Applied(evt.action,
                  [VolumeManager_handleBlockEvent(Manager, evt, Scanned(scan))
                     EXCEPT !.ev = <<>>, !.graves = <<>>],
                  apply_call)

\* if (!volumeMount(vi.mId)) return INSTALL_NONE
AS_Mount ==
  /\ apply_call.pc = "mount"
  /\ \E mounted \in {"OK", "-EIO"} :
       Applied("volumeMount", VolumeManager_volumeMount(Manager, apply_call.id, mounted),
               IF VolumeManager_volumeMount(Manager, apply_call.id, mounted).res
               THEN [apply_call EXCEPT !.mounted = TRUE, !.pc = "browse"]
               ELSE [apply_call EXCEPT !.result = "INSTALL_NONE", !.pc = "returned"])

\* path = BrowseDirectory(vi.mPath, device, ui)
AS_Browse ==
  /\ apply_call.pc = "browse"
  /\ \E path \in {"", "/storage/update.zip"} :
       apply_call' = [apply_call EXCEPT !.browsed = TRUE, !.result = "INSTALL_NONE",
                                        !.pc = AfterBrowse(path)]
  /\ ApplyFrame

\* result = InstallWithFuseFromPath(path, device)
AS_Install ==
  /\ apply_call.pc = "install"
  /\ \E r \in InstallResults :
       apply_call' = [apply_call EXCEPT !.installed = TRUE, !.result = r, !.pc = "unmount"]
  /\ ApplyFrame

\* volumeUnmount(vi.mId); return
AS_Unmount ==
  /\ apply_call.pc = "unmount"
  /\ Applied("volumeUnmount", VolumeManager_volumeUnmount(Manager, apply_call.id, FALSE),
             [apply_call EXCEPT !.unmounts = @ + 1, !.pc = "returned"])

NextStorage ==
  \/ MgrStart
  \/ AS_BlockEvent
  \/ AS_Call
  \/ AS_Mount
  \/ AS_Browse
  \/ AS_Install
  \/ AS_Unmount

SpecStorage == InitStorage /\ [][NextStorage]_vars

(***************************************************************************)
(* Properties.                                                             *)
(***************************************************************************)
InTrace(e) == \E i \in 1..Len(trace) : trace[i] = e

\* TryUpdateBinary has been entered and has returned in the current call
TubReturned == pc \in {"vip_ret", "log", "wipe", "done"} /\ tub_result # "none"

\* the package's post-timestamp parses and is older than the build date
PostTimestampOlder(md, dev) ==
  IsIntString(md.post_timestamp) /\ IntOf(md.post_timestamp) < IntOf(dev.build_date_utc)

\* C1: when the previous TryUpdateBinary call of this process ran the updater
\* child of an A/B package to success (exit status 0, no retry), that call
\* returned INSTALL_SUCCESS, and a TryUpdateBinary call for an A/B package that
\* follows it returns INSTALL_ERROR without forking a child.
C1_OneShotAbGuard ==
  prev.ab_child_ok =>
    /\ prev.tub_result = "INSTALL_SUCCESS"
    /\ (TubReturned /\ package_is_ab(package)) =>
         (tub_result = "INSTALL_ERROR" /\ ~InTrace("fork"))

C1_Witness ==
  /\ pc = "done"
  /\ prev.ab_child_ok
  /\ package_is_ab(package)
  /\ ~package.spl_older
  /\ tub_exit = "one_shot"

NoUpdaterNoWipe ==
  /\ ~InTrace("fork")
  /\ ~InTrace("WipeAbDevice")
  /\ ~InTrace("WipeData")
  /\ ~InTrace("WipeCache")
  /\ ~InTrace("map_logical_partitions")

\* C3 as stated: every package whose security patch level is older than the
\* installed one is rejected, whatever its type: the install does not succeed
\* and neither the updater nor any wipe runs.
C3_SplRejectedAnyType ==
  (~package.null /\ package.spl_older) =>
    /\ result # "INSTALL_SUCCESS"
    /\ tub_result # "INSTALL_SUCCESS"
    /\ NoUpdaterNoWipe

\* C3 amended: every package that is not a brick package and whose security
\* patch level is older than the installed one is rejected: TryUpdateBinary, if
\* entered, returns INSTALL_ERROR at the patch-level check, the install does not
\* succeed, neither the updater nor any wipe runs, and no downgrade or reboot
\* prompt is offered.
C3_SplRejectedUnlessBrick ==
  (~package.null /\ package.spl_older /\ ~package_is_brick(package)) =>
    /\ result # "INSTALL_SUCCESS"
    /\ tub_result \in {"none", "INSTALL_ERROR"}
    /\ tub_result # "none" => tub_exit = "spl"
    /\ NoUpdaterNoWipe
    /\ ~InTrace("ask_to_continue_downgrade")
    /\ ~InTrace("ask_to_ab_reboot")

C3_Witness ==
  /\ pc = "done"
  /\ package.spl_older
  /\ package_is_ab(package)
  /\ text_visible
  /\ ab_package_installed
  /\ tub_exit = "spl"
  /\ result = "INSTALL_ERROR"

\* C4 as stated: with the text UI not visible, any package whose post-timestamp
\* is older than the build date and that lacks ota-downgrade=yes is rejected:
\* the install does not succeed and no updater child runs.
C4_DowngradeRejectedAnyType ==
  (/\ ~package.null
   /\ ~text_visible
   /\ PostTimestampOlder(Metadata(package), device)
   /\ Metadata(package).ota_downgrade # "yes") =>
    /\ result # "INSTALL_SUCCESS"
    /\ tub_result # "INSTALL_SUCCESS"
    /\ ~InTrace("fork")

\* C4 amended: with the text UI not visible, an A/B package (ota-type=AB) whose
\* post-timestamp is older than the build date and that lacks ota-downgrade=yes
\* is rejected: the install does not succeed and no updater child runs.
C4_AbDowngradeRejected ==
  (/\ package_is_ab(package)
   /\ ~text_visible
   /\ PostTimestampOlder(Metadata(package), device)
   /\ Metadata(package).ota_downgrade # "yes") =>
    /\ result # "INSTALL_SUCCESS"
    /\ tub_result \in {"none", "INSTALL_ERROR"}
    /\ ~InTrace("fork")

C4_Witness ==
  /\ pc = "done"
  /\ package_is_ab(package)
  /\ ~text_visible
  /\ PostTimestampOlder(Metadata(package), device)
  /\ Metadata(package).ota_downgrade # "yes"
  /\ InTrace("verify_package")
  /\ ~InTrace("verification failed")
  /\ tub_exit = "metadata"
  /\ result = "INSTALL_ERROR"

\* the lines of the child's output that the protocol accepts
GoodLines(out) == SelectSeq(out, LAMBDA l : ~LineIsError(l))

\* C5: when the read loop has ended, the wipe_cache flag, the retry flag and
\* the log buffer are those the loop computes for the child's output with the
\* unrecognized and malformed lines removed.
C5_ProtocolRobust ==
  pc # "read" =>
    [wipe |-> updater_wipe_cache, retry |-> retry_update, log |-> log_buffer]
      = ReadLoop(Concat(GoodLines(child_output)),
                 [wipe |-> FALSE, retry |-> FALSE, log |-> <<>>])

C7_LogFlagIsReturnedResult ==
  pc = "done" =>
    /\ Len(install_log) >= 2
    /\ install_log[1] \in {Text(id) : id \in PackageIds}
    /\ install_log[2] = Text(IF result = "INSTALL_SUCCESS" THEN "1" ELSE "0")

\* C8: once setup_install_mounts has failed, the result is INSTALL_ERROR, and
\* neither verification nor TryUpdateBinary nor a child nor a cache wipe runs.
C8_MountFailureAborts ==
  InTrace("mounts failed") =>
    /\ result = "INSTALL_ERROR"
    /\ pc \in {"log", "wipe", "done"}
    /\ ~InTrace("verify_package")
    /\ ~InTrace("TryUpdateBinary")
    /\ ~InTrace("fork")
    /\ ~InTrace("WipeCache")

C8_Witness ==
  /\ pc = "done"
  /\ InTrace("mounts failed")
  /\ caller_wipe_cache
  /\ result = "INSTALL_ERROR"

\* C9: TryUpdateBinary is entered, and a child forked, only after
\* verify_package has finished; when verification fails and the text UI is not
\* visible or the user declines, the result is INSTALL_CORRUPT and
\* TryUpdateBinary is not entered.
C9_VerifyThenInstall ==
  /\ \A i \in 1..Len(trace) :
       trace[i] \in {"TryUpdateBinary", "fork"} =>
         \E j \in 1..(i - 1) : trace[j] = "verify_package"
  /\ (InTrace("verification failed") /\ (~text_visible \/ InTrace("answer no"))) =>
       /\ result = "INSTALL_CORRUPT"
       /\ ~InTrace("TryUpdateBinary")
       /\ ~InTrace("fork")
       /\ ~InTrace("WipeCache")

C9_Witness ==
  /\ pc = "done"
  /\ InTrace("verification failed")
  /\ text_visible
  /\ InTrace("answer no")
  /\ result = "INSTALL_CORRUPT"

\* C10: on a virtual-A/B device an A/B package reaches the fork, and its child
\* runs, only with the logical partitions unmapped; with them mapped
\* TryUpdateBinary returns INSTALL_ERROR without forking.
C10_AbNeedsUnmapped ==
  (package_is_ab(package) /\ device.virtual_ab) =>
    /\ pc \in {"spawn", "read"} => ~logical_partitions_mapped
    /\ (pc = "vip_ret" /\ logical_partitions_mapped) =>
         (tub_result = "INSTALL_ERROR" /\ ~InTrace("fork"))

C10_Witness ==
  /\ pc = "done"
  /\ package_is_ab(package)
  /\ device.virtual_ab
  /\ logical_partitions_auto_mapped
  /\ tub_exit = "mapped"
  /\ tub_result = "INSTALL_ERROR"
  /\ ~InTrace("fork")

(***************************************************************************)
(* Properties of a volume (specification SpecVolume).                      *)
(***************************************************************************)
Terminal == {"kRemoved", "kBadRemoval"}

LastHook(c) == IF c.hooks = <<>> THEN "none" ELSE c.hooks[Len(c.hooks)]

\* C11: unmount() is accepted in every state: it runs doUnmount, passes through
\* Ejecting, ends in Unmounted and returns OK; and unmounting twice leaves the
\* object's fields as unmounting once does, whatever the state it starts from.
C11_UnmountAlwaysUnmounted ==
  /\ vlast.op = "unmount" =>
       /\ volume.v.mState = "kUnmounted"
       /\ volume.res = "OK"
       /\ StatesDuring = <<"kEjecting", "kUnmounted">>
       /\ HooksDuring \in {<<"doUnmount">>, <<"doUnmount detach">>}
  /\ \A d1 \in BOOLEAN, d2 \in BOOLEAN :
       LET once == VolumeBase_unmount(volume, d1)
           twice == VolumeBase_unmount(once, d2)
       IN twice.v = once.v /\ twice.res = "OK" /\ once.v.mState = "kUnmounted"

\* an unmount of a volume that the call before had already unmounted
C11_Witness ==
  /\ vlast.op = "unmount"
  /\ vlast.pre.v.mState = "kUnmounted"
  /\ LastHook(vlast.pre) \in {"doUnmount", "doUnmount detach"}
  /\ volume.v.mState = "kUnmounted"

\* C12 as stated: a destroy() of a Mounted volume takes the state through
\* Ejecting and Unmounted to BadRemoval, and no destroy() returns with the
\* volume in state Mounted.
C12_DestroyLeavesMounted ==
  vlast.op = "destroy" =>
    /\ volume.v.mState # "kMounted"
    /\ vlast.pre.v.mState = "kMounted" =>
         StatesDuring = <<"kEjecting", "kUnmounted", "kBadRemoval">>

\* C12, amended: a destroy() of a created volume returns with the volume in
\* Removed or BadRemoval; if the volume was Mounted the state goes through
\* Ejecting and Unmounted to BadRemoval.  A destroy() of a volume that is not
\* created returns NO_INIT and changes nothing.
C12_CreatedDestroyLeavesMounted ==
  vlast.op = "destroy" =>
    IF vlast.pre.v.mCreated
    THEN /\ volume.v.mState \in Terminal
         /\ vlast.pre.v.mState = "kMounted" =>
              /\ StatesDuring = <<"kEjecting", "kUnmounted", "kBadRemoval">>
              /\ HooksDuring = <<"doUnmount detach", "doDestroy">>
         /\ vlast.pre.v.mState # "kMounted" => StatesDuring = <<"kRemoved">>
    ELSE volume.res = "NO_INIT" /\ volume.v = vlast.pre.v /\ StatesDuring = <<>>

C12_Witness ==
  /\ vlast.op = "destroy"
  /\ vlast.pre.v.mCreated
  /\ vlast.pre.v.mState = "kMounted"
  /\ volume.v.mState = "kBadRemoval"

\* C13: a mount() in a state other than Unmounted or Unmountable returns
\* -EBUSY, runs no subtype hook, assigns no state, notifies nothing and
\* leaves every field of the object as it was.
C13_MountRejected ==
  (vlast.op = "mount" /\ vlast.pre.v.mState \notin {"kUnmounted", "kUnmountable"}) =>
    /\ volume.res = "-EBUSY"
    /\ HooksDuring = <<>>
    /\ StatesDuring = <<>>
    /\ EventsDuring = <<>>
    /\ volume.v = vlast.pre.v

C13_Witness ==
  /\ vlast.op = "mount"
  /\ vlast.pre.v.mState = "kMounted"
  /\ volume.res = "-EBUSY"

\* C14: a mount(), unmount() or destroy() of a volume in Removed or BadRemoval
\* leaves the state as it was.
C14_TerminalStates ==
  (vlast.op \in {"mount", "unmount", "destroy"} /\ vlast.pre.v.mState \in Terminal) =>
    volume.v.mState = vlast.pre.v.mState

C16_IdsImmutableWhileCreated ==
  volume.v.mCreated => Ids(volume.v) = volume.snap

\* C17: in every state other than Mounted the volume has no path.
C17_PathOnlyWhileMounted ==
  volume.v.mState # "kMounted" => volume.v.mPath = <<>>

\* the disk-destroyed notification of a destroyed disk is the last thing its
\* destroy() notified
DiskDestroyedLast(g) ==
  /\ g.ev # <<>>
  /\ g.ev[Len(g.ev)].src = g.disk.mId
  /\ g.ev[Len(g.ev)].code = "DiskDestroyed"
  /\ \A i \in 1..(Len(g.ev) - 1) : g.ev[i].code # "DiskDestroyed"

\* the former volume was destroyed, and its notification came before the last
\* one of the disk
VolumeDestroyedBefore(g, v) ==
  /\ \E i \in 1..(Len(g.ev) - 1) : g.ev[i].src = v.mId /\ g.ev[i].code = "VolumeDestroyed"
  /\ ~v.mCreated
  /\ v.mState \in Terminal

\* C18: whenever an operation of the manager has destroyed a disk (a remove
\* event or stop), every volume the disk owned was destroyed before the
\* disk-destroyed notification was sent, and afterwards the disk owns no
\* volume, is not created, and none of its former volumes is created or
\* Mounted.
C18_DiskDestroyDestroysVolumes ==
  \A k \in 1..Len(mlast.graves) :
    /\ DiskDestroyedLast(mlast.graves[k])
    /\ \A j \in 1..Len(mlast.graves[k].vols) :
         VolumeDestroyedBefore(mlast.graves[k], mlast.graves[k].vols[j])
    /\ mlast.graves[k].disk.mVolumes = <<>>
    /\ ~mlast.graves[k].disk.mCreated

\* a remove event has destroyed a disk that owned two volumes, one of them
\* Mounted when the disk went away
C18_Witness ==
  /\ mlast.op = "kRemove"
  /\ \E k \in 1..Len(mlast.graves) :
       /\ Len(mlast.graves[k].vols) = 2
       /\ \E j \in 1..2 : mlast.graves[k].vols[j].mState = "kBadRemoval"
       /\ \E j \in 1..2 : mlast.graves[k].vols[j].mState = "kRemoved"

\* C20: no two disks of the manager's list have the same device number.
C20_NoSharedDevice ==
  \A i, j \in 1..Len(mDisks) : i # j => mDisks[i].mDevice # mDisks[j].mDevice

\* C19: the main thread and the listener thread are never at the same time in
\* steps of manager operations that read or write the disk list or a volume.
C19_NoOverlap == ~(Touching("main") /\ Touching("listener"))

\* C27: a mount() of a volume in Unmounted or Unmountable calls doMount,
\* assigns Checking and then Mounted when doMount returned OK and Unmountable
\* when it did not, and returns what doMount returned; after a mount() has
\* returned the volume is never in Checking.
C27_MountOutcome ==
  /\ vlast.op = "mount" => volume.v.mState # "kChecking"
  /\ (vlast.op = "mount" /\ vlast.pre.v.mState \in {"kUnmounted", "kUnmountable"}) =>
       /\ HooksDuring = <<"doMount">>
       /\ StatesDuring =
            <<"kChecking", IF vlast.arg = "OK" THEN "kMounted" ELSE "kUnmountable">>
       /\ volume.v.mState = (IF vlast.arg = "OK" THEN "kMounted" ELSE "kUnmountable")
       /\ volume.res = vlast.arg

\* a mount() from Unmountable whose doMount failed again
C27_Witness ==
  /\ vlast.op = "mount"
  /\ vlast.pre.v.mState = "kUnmountable"
  /\ vlast.arg = "-EIO"
  /\ volume.v.mState = "kUnmountable"
  /\ volume.res = "-EIO"

\* the codes of the notifications in a log
Codes(ev) == [i \in 1..Len(ev) |-> ev[i].code]

\* C28: a create() of a created volume calls no doCreate, notifies nothing
\* and assigns no state; a create() of a volume that is not created calls
\* doCreate, notifies VolumeCreated with the type, the disk id and the
\* partition GUID, and assigns Unmounted.
C28_CreateOutcome ==
  /\ (vlast.op = "create" /\ vlast.pre.v.mCreated) =>
       /\ HooksDuring = <<>>
       /\ EventsDuring = <<>>
       /\ StatesDuring = <<>>
  /\ (vlast.op = "create" /\ ~vlast.pre.v.mCreated) =>
       /\ HooksDuring = <<"doCreate">>
       /\ \E i \in 1..Len(EventsDuring) :
            /\ EventsDuring[i].code = "VolumeCreated"
            /\ EventsDuring[i].argv =
                 <<TypeArg(vlast.pre.v), vlast.pre.v.mDiskId, vlast.pre.v.mPartGuid>>
       /\ StatesDuring = <<"kUnmounted">>

Scanning == mlast.op \in {"create", "readPartitions"}

\* the number of partition devices the driver of the disk supports
MaxMinors == Disk_getMaxMinors(mlast.pre, mlast.scan.sysfs)

\* the type of the entry bears a filesystem
FilesystemBearing(table, part) ==
  \/ table = "MBR" /\ strtol(part.type, 16) \in {6, 7, 11, 12, 14, 131}
  \/ table = "GPT" /\ FoldCase(part.guid) \in {kGptBasicData, kGptLinuxFilesystem}

Eligible(part) ==
  /\ part.num \in 1..MaxMinors
  /\ FilesystemBearing(mlast.scan.table, part)

VolumeIds(vols) == [i \in 1..Len(vols) |-> vols[i].mId]

IsWholeDisk(v) == v.mId = VolumeIdOf(TheDisk.mDevice)

IsPartition(v) == ~IsWholeDisk(v)

PartitionId(part) ==
  VolumeIdOf(makedev(TheDisk.mDevice[1], TheDisk.mDevice[2] + part.num))

EligibleIds == VolumeIds([i \in 1..Len(SelectSeq(mlast.scan.parts, Eligible)) |->
                            [mId |-> PartitionId(SelectSeq(mlast.scan.parts, Eligible)[i])]])

\* C21: after readPartitions the partition volumes of the disk are, in the
\* order of the table, those of the entries whose number lies within
\* 1..max-minors and whose type bears a filesystem.
C21_PartitionClassification ==
  Scanning => VolumeIds(SelectSeq(TheDisk.mVolumes, IsPartition)) = EligibleIds

\* readPartitions has read the partition table
TableRead == Scanning /\ MaxMinors >= 0 /\ mlast.scan.res = 0

\* C22: when readPartitions has read a table that is Unknown or of which no
\* entry made a volume, the disk has a whole-disk volume exactly if a
\* filesystem was detected on the disk device; otherwise it has none.
C22_WholeDiskFallback ==
  TableRead =>
    ((\E i \in 1..Len(TheDisk.mVolumes) : IsWholeDisk(TheDisk.mVolumes[i]))
       <=> /\ \/ mlast.scan.table = "other"
              \/ SelectSeq(TheDisk.mVolumes, IsPartition) = <<>>
           /\ mlast.scan.fsType # "")

\* C23: a call that ran readPartitions has notified DiskScanned exactly once.
C23_ScannedOnce ==
  Scanning =>
    Cardinality({i \in 1..Len(mlast.ev) : mlast.ev[i].code = "DiskScanned"}) = 1

AllUnmountedIn(vols) == \A j \in 1..Len(vols) : vols[j].mState = "kUnmounted"

\* C25: Disk::unmountAll of any disk of the manager returns OK and leaves
\* every volume of the disk Unmounted; and when VolumeManager::unmountAll has
\* returned, it has returned true and the internal volume and every volume
\* of every disk is Unmounted.
C25_UnmountAllSucceeds ==
  /\ \A i \in 1..Len(mDisks) :
       /\ Disk_unmountAll(DiskContext(mDisks[i])).res = "OK"
       /\ AllUnmountedIn(Disk_unmountAll(DiskContext(mDisks[i])).d.mVolumes)
       /\ Len(Disk_unmountAll(DiskContext(mDisks[i])).d.mVolumes) = Len(mDisks[i].mVolumes)
  /\ mlast.op = "unmountAll" =>
       /\ mlast.res = TRUE
       /\ AllUnmountedIn(mInternalEmulated)
       /\ \A i \in 1..Len(mDisks) : AllUnmountedIn(mDisks[i].mVolumes)

\* unmountAll has returned with an internal volume and a disk of two volumes
\* and has told the watcher of their way through Ejecting
C25_Witness ==
  /\ mlast.op = "unmountAll"
  /\ mInternalEmulated # nullptr
  /\ \E i \in 1..Len(mDisks) : Len(mDisks[i].mVolumes) = 2
  /\ Cardinality({k \in 1..Len(mlast.ev) : mlast.ev[k].argv = <<"kEjecting">>}) >= 3

\* the device number of a block event
EventDevice(evt) == makedev(evt.major, evt.minor)

OnDevice(disks, devno) == SelectSeq(disks, LAMBDA d : d.mDevice = devno)

OffDevice(disks, devno) == SelectSeq(disks, LAMBDA d : d.mDevice # devno)

\* the grave is that of the disk, destroyed with all its volumes
DestroyedAs(g, disk) ==
  /\ g.disk.mId = disk.mId
  /\ DiskDestroyedLast(g)
  /\ Len(g.vols) = Len(disk.mVolumes)
  /\ \A j \in 1..Len(g.vols) :
       /\ g.vols[j].mId = disk.mVolumes[j].mId
       /\ VolumeDestroyedBefore(g, g.vols[j])

RemoveStep ==
  (mlast'.op = "kRemove" /\ mlast'.arg.devtype = "disk") =>
    /\ mDisks' = OffDevice(mDisks, EventDevice(mlast'.arg))
    /\ mInternalEmulated' = mInternalEmulated
    /\ Len(mlast'.graves) = Len(OnDevice(mDisks, EventDevice(mlast'.arg)))
    /\ \A k \in 1..Len(mlast'.graves) :
         DestroyedAs(mlast'.graves[k], OnDevice(mDisks, EventDevice(mlast'.arg))[k])

\* C26: a Remove event for device d leaves in the list exactly the disks
\* whose device number is not d, as they were and in their order, and every
\* disk with number d has been destroyed with all of its volumes.
C26_RemoveErasesDevice == [][RemoveStep]_vars

\* a Remove event has destroyed a disk with a Mounted volume and left another
\* disk in the list
C26_Witness ==
  /\ mlast.op = "kRemove"
  /\ mDisks # <<>>
  /\ \E k \in 1..Len(mlast.graves) :
       \E j \in 1..Len(mlast.graves[k].vols) :
         mlast.graves[k].vols[j].mState = "kBadRemoval"

BlockEventStep == mlast'.op \in {"kAdd", "kChange", "kRemove", "kUnknown"}

Matches(evt, s) == DiskSource_matches(mDiskSources[s], evt.path)

\* s is the first source the event matches
FirstMatch(evt, s) == Matches(evt, s) /\ \A t \in 1..(s - 1) : ~Matches(evt, t)

AddsDisk(evt) ==
  /\ evt.action = "kAdd"
  /\ evt.devtype = "disk"
  /\ \E s \in 1..Len(mDiskSources) : Matches(evt, s)

\* the disk is the one the Add event makes from the source
BuiltFrom(disk, evt, source) ==
  /\ disk.mDevice = EventDevice(evt)
  /\ disk.mNickname = source.nickname
  /\ disk.partition = (source.partnum # -1)
  /\ disk.mPartNum = source.partnum
  /\ disk.mCreated

AddStep ==
  /\ Len(mDisks') > Len(mDisks) => BlockEventStep /\ AddsDisk(mlast'.arg)
  /\ (BlockEventStep /\ AddsDisk(mlast'.arg)) =>
       /\ Len(mDisks') = Len(mDisks) + 1
       /\ SubSeq(mDisks', 1, Len(mDisks)) = mDisks
       /\ \E s \in 1..Len(mDiskSources) :
            /\ FirstMatch(mlast'.arg, s)
            /\ BuiltFrom(mDisks'[Len(mDisks')], mlast'.arg, mDiskSources[s])
       /\ mlast'.ev # <<>>
       /\ mlast'.ev[1].code = "DiskCreated"
       /\ mInternalEmulated' = mInternalEmulated
  /\ (BlockEventStep /\ \/ mlast'.arg.devtype # "disk"
                        \/ mlast'.arg.action = "kAdd" /\ ~AddsDisk(mlast'.arg)
                        \/ mlast'.arg.action = "kUnknown") =>
       /\ mDisks' = mDisks
       /\ mInternalEmulated' = mInternalEmulated
       /\ mlast'.ev = <<>>

\* C29: the list grows only by an Add event of a disk whose path matches a
\* source, and then by exactly one disk, made from the first matching source
\* and created; an event that is not of a disk, an Add that matches no
\* source and an event of an unknown action change no disk and no volume and
\* notify nothing.
C29_OnlyMatchingAddAdds == [][AddStep]_vars

\* an Add event whose path matches two sources has added a disk, and the
\* list had a disk already
C29_Witness ==
  /\ mlast.op = "kAdd"
  /\ mlast.arg.devtype = "disk"
  /\ Len(mDisks) = 2
  /\ mDisks[2].mDevice = EventDevice(mlast.arg)
  /\ Cardinality({s \in 1..Len(mDiskSources) : Matches(mlast.arg, s)}) = 2

\* the volumes of the disks of the sequence, one after the other
RECURSIVE VolumesOf(_)
VolumesOf(disks) ==
  IF disks = <<>> THEN <<>> ELSE Head(disks).mVolumes \o VolumesOf(Tail(disks))

CountEvents(ev, code, argv) ==
  Cardinality({k \in 1..Len(ev) : ev[k].code = code /\ ev[k].argv = argv})

ChangeStep ==
  (mlast'.op = "kChange" /\ mlast'.arg.devtype = "disk") =>
    /\ Len(mDisks') = Len(mDisks)
    /\ \A i \in 1..Len(mDisks) :
         /\ mDisks'[i].mId = mDisks[i].mId
         /\ mDisks[i].mDevice # EventDevice(mlast'.arg) => mDisks'[i] = mDisks[i]
    /\ CountEvents(mlast'.ev, "VolumeDestroyed", <<>>) =
         Len(VolumesOf(OnDevice(mDisks, EventDevice(mlast'.arg))))
    /\ CountEvents(mlast'.ev, "VolumeStateChanged", <<"kBadRemoval">>) =
         Len(SelectSeq(VolumesOf(OnDevice(mDisks, EventDevice(mlast'.arg))),
                       LAMBDA v : v.mState = "kMounted"))
    /\ CountEvents(mlast'.ev, "VolumeCreated", <<"0", DiskIdOf(EventDevice(mlast'.arg)), "">>) =
         Len(VolumesOf(OnDevice(mDisks', EventDevice(mlast'.arg))))
    /\ mInternalEmulated' = mInternalEmulated

\* C30: a Change event for device d keeps the list's disks; every volume of
\* a disk with number d is destroyed, a Mounted one through BadRemoval, the
\* volumes such a disk has afterwards were all created during the event, and
\* the other disks are as they were.
C30_ChangeRescans == [][ChangeStep]_vars

\* the device of the partition a fixed-partition disk is configured for
ConfiguredDevice(disk) == makedev(disk.mDevice[1], disk.mDevice[2] + disk.mPartNum)

\* C37: every created fixed-partition disk of the list owns exactly one
\* volume, the volume of its configured partition, whatever Change events
\* its device has had.
C37_FixedPartitionOwnsOne ==
  \A i \in 1..Len(mDisks) :
    (mDisks[i].partition /\ mDisks[i].mCreated) =>
      /\ Len(mDisks[i].mVolumes) = 1
      /\ mDisks[i].mVolumes[1].mId = VolumeIdOf(ConfiguredDevice(mDisks[i]))

\* the step forks an updater child: "fork" is new in the trace
ForkStep ==
  \E i \in 1..Len(trace') :
    trace'[i] = "fork" /\ (i > Len(trace) \/ trace[i] # "fork")

FlagStep ==
  /\ (ab_package_installed /\ ~Restart) => ab_package_installed'
  /\ (~ab_package_installed /\ ab_package_installed') =>
       /\ package_is_ab(package)
       /\ InTrace("fork")
       /\ child_status' = "exit0"
       /\ ~retry_update
       /\ tub_result' = "INSTALL_SUCCESS"
  /\ ab_package_installed => ~ForkStep

\* C32: within one process ab_package_installed never goes from true to
\* false; it goes from false to true only in the step in which the forked
\* child of an A/B package is found to have exited with status 0 and no
\* retry was requested; and no step taken while it is true forks a child.
C32_FlagSetOnce == [][FlagStep]_vars

\* with the flag set by an earlier call, a later call for a legacy package
\* has returned INSTALL_ERROR at the guard without a fork
C32_Witness ==
  /\ ab_package_installed
  /\ prev.ab_child_ok
  /\ pc = "done"
  /\ ~package.null
  /\ ~package_is_ab(package)
  /\ tub_exit = "one_shot"
  /\ ~InTrace("fork")

PostTimestampNewer(md, dev) ==
  IsIntString(md.post_timestamp) /\ IntOf(md.post_timestamp) > IntOf(dev.build_date_utc)

PostTimestampNotOlder(md, dev) ==
  IsIntString(md.post_timestamp) /\ IntOf(md.post_timestamp) >= IntOf(dev.build_date_utc)

\* ota-downgrade=yes together with a pre-build fingerprint
DeclaredDowngrade(md) == md.ota_downgrade = "yes" /\ md.pre_build # <<>>

UserConfirmed ==
  text_visible /\ trace = <<"ask_to_continue_downgrade", "yes">>

\* C33 as stated: the check of an A/B package returns true only if the
\* post-timestamp is newer than the build date, or the downgrade is declared
\* with a pre-build fingerprint, or the text UI is visible and the user has
\* confirmed.
C33_PassesOnlyIfNewer ==
  (pc = "checked" /\ result = "true") =>
    \/ PostTimestampNewer(Metadata(package), device)
    \/ DeclaredDowngrade(Metadata(package))
    \/ UserConfirmed

\* C33 amended: the check of an A/B package returns true only if the
\* post-timestamp is not older than the build date (newer or equal), or the
\* downgrade is declared with a pre-build fingerprint, or the text UI is
\* visible and the user has confirmed; and the user is asked only in a
\* visible text UI and when neither of the first two holds.
C33_PassesOnlyIfNotOlder ==
  /\ (pc = "checked" /\ result = "true") =>
       \/ PostTimestampNotOlder(Metadata(package), device)
       \/ DeclaredDowngrade(Metadata(package))
       \/ UserConfirmed
  /\ (pc = "checked" /\ trace # <<>>) =>
       /\ text_visible
       /\ ~PostTimestampNotOlder(Metadata(package), device)
       /\ ~DeclaredDowngrade(Metadata(package))

\* a package with the build date's own timestamp and no downgrade flag has
\* passed with the text UI not visible
C33_Witness ==
  /\ pc = "checked"
  /\ result = "true"
  /\ ~text_visible
  /\ Metadata(package).post_timestamp = device.build_date_utc
  /\ Metadata(package).ota_downgrade = ""

\* the main thread is past the call through the pointer, or has returned
MainDone == thread.main.n > 0 /\ thread.main.pc \in {"unlock", "idle"}

\* at most one thread is between taking the lock and releasing it
Serialized ==
  ~(thread.main.pc \in {"find", "operate", "unlock"}
    /\ thread.listener.pc \in {"destroy", "finish", "unlock"})

SameOperation(a, b) == a.by = b.by /\ a.n = b.n

\* the notifications of an operation are next to each other in the log
Contiguous(log) ==
  \A i \in 1..Len(log), k \in 1..Len(log) :
    (i < k /\ SameOperation(log[i], log[k])) =>
      \A j \in i..k : SameOperation(log[i], log[j])

C34_SamplerTerminates ==
  (temperature_logger.parent = "store") ~> (temperature_logger.parent = "returned")

\* the join has returned although the notification found no waiting thread
\* and the thread then waited and sampled once more
C34_Witness ==
  /\ temperature_logger.parent = "returned"
  /\ temperature_logger.late
  /\ temperature_logger.wake = "timeout"

\* C35: no wait of the sampling thread times out after the parent has sent
\* the notification.
C35_NoLateTimeout == ~temperature_logger.late

\* the loop polls at most SDCARD_INSTALL_TIMEOUT times with one sleep between
\* two polls, InstallPackage is called only when the pathname was seen, and
\* a call that has polled to the bound without seeing it has sent SIGKILL
\* and returns INSTALL_ERROR
FuseBounded ==
  /\ fuse_call.polls <= SDCARD_INSTALL_TIMEOUT
  /\ fuse_call.sleeps = fuse_call.i
  /\ fuse_call.polls <= fuse_call.sleeps + 1
  /\ fuse_call.installed => fuse_call.seen
  /\ (fuse_call.pc \in {"after", "wait", "return", "returned"} /\ ~fuse_call.seen) =>
       /\ fuse_call.result = "INSTALL_ERROR"
       /\ ~fuse_call.installed
       /\ fuse_call.polls = SDCARD_INSTALL_TIMEOUT => fuse_call.killed

\* C36: InstallWithFuseFromPath returns; it polls for the host pathname at
\* most SDCARD_INSTALL_TIMEOUT times, a second apart; it calls InstallPackage
\* only after it has seen the pathname; and when it has polled to the bound
\* without seeing it, it has killed the child and returns INSTALL_ERROR.
C36_FuseInstallTerminates ==
  /\ []FuseBounded
  /\ (fuse_call.pc = "fork") ~> (fuse_call.pc = "returned")

\* the call has returned INSTALL_ERROR after ten polls and the kill of a
\* child whose fuse never came up
C36_Witness ==
  /\ fuse_call.pc = "returned"
  /\ fuse_call.polls = SDCARD_INSTALL_TIMEOUT
  /\ fuse_call.sleeps = SDCARD_INSTALL_TIMEOUT - 1
  /\ fuse_call.killed
  /\ ~fuse_call.seen
  /\ fuse_call.result = "INSTALL_ERROR"

\* C38: a change flagged by the watcher's callback is followed by a return
\* of KEY_REFRESH from WaitInputEvent, however onVolumeChanged interleaves
\* with VolumesChanged.
C38_ChangeLeadsToRefresh == recovery_ui.pending ~> ~recovery_ui.pending

\* the lock the thread's next statement asks for
Wants(t) ==
  CASE t = "main" /\ recovery_ui.main \in {"lock_mutex", "wait"} -> "event_queue_mutex"
    [] t = "main" /\ recovery_ui.main = "lock_manager" -> "mLock"
    [] t = "input" /\ recovery_ui.input \in {"lock_mutex", "enqueue"} -> "event_queue_mutex"
    [] t = "input" /\ recovery_ui.input = "reboot" -> "mLock"
    [] t = "listener" /\ recovery_ui.listener = "lock_manager" -> "mLock"
    [] OTHER -> "none"

UIThreads == {"main", "input", "listener"}

\* a thread asks for a lock it holds, or two threads each ask for the lock
\* the other holds
Deadlocked ==
  \/ \E t \in UIThreads : Wants(t) # "none" /\ recovery_ui[Wants(t)] = t
  \/ \E t, u \in UIThreads :
       /\ t # u
       /\ Wants(t) # "none"
       /\ Wants(u) # "none"
       /\ recovery_ui[Wants(t)] = u
       /\ recovery_ui[Wants(u)] = t

\* C40: the three threads never deadlock on mLock and event_queue_mutex: the
\* watcher's callback runs with mLock held by the listener, which asks for
\* neither lock while it holds mLock, and no thread asks for mLock while it
\* holds event_queue_mutex.
C40_NoDeadlock ==
  /\ ~Deadlocked
  /\ recovery_ui.listener \in {"handling", "callback", "notified"} =>
       /\ recovery_ui.mLock = "listener"
       /\ recovery_ui.event_queue_mutex # "listener"
       /\ Wants("listener") = "none"
  /\ \A t \in UIThreads : recovery_ui.event_queue_mutex = t => Wants(t) # "mLock"

\* the listener is in the callback while the input thread waits for mLock
\* in unmountAll and the main thread holds event_queue_mutex
C40_Witness ==
  /\ recovery_ui.listener = "callback"
  /\ recovery_ui.input = "reboot"
  /\ recovery_ui.event_queue_mutex = "main"

\* the state of the volume findVolume finds, "none" when it finds none
StateOf(m, at) == IF at.found THEN VolumeAt(m, at).mState ELSE "none"

SelectedState == StateOf(Manager, VolumeManager_findVolume(Manager, apply_call.id))

\* C39: when ApplyFromStorage has returned, the selected volume is not
\* Mounted; after a failed volumeMount it has returned INSTALL_NONE without
\* browsing, installing or unmounting, and after a successful one it has
\* called volumeUnmount once.
C39_NeverLeftMounted ==
  apply_call.pc = "returned" =>
    /\ SelectedState # "kMounted"
    /\ ~apply_call.mounted =>
         /\ apply_call.result = "INSTALL_NONE"
         /\ ~apply_call.browsed
         /\ ~apply_call.installed
         /\ apply_call.unmounts = 0
    /\ apply_call.mounted => apply_call.unmounts = 1

\* a call has mounted the volume, installed from it and unmounted it
C39_Witness ==
  /\ apply_call.pc = "returned"
  /\ apply_call.mounted
  /\ apply_call.installed
  /\ mlast.op = "volumeUnmount"
  /\ mlast.res = TRUE
  /\ SelectedState = "kUnmounted"

====
